---- MODULE Spec2Model ----
(***************************************************************************)
(* cowCode.  The cron engine: the job store, the runner (startCron,        *)
(* scheduleOneShot, runJob, runJobOnce, sendCronReply) and the cron skill  *)
(* (list / add / remove); one process, a crash loses the module state of   *)
(* cron/runner.js (timers, in-flight runs, wired transports) and keeps the *)
(* store file.  The skill dispatcher (executeSkill, executeCore) under the *)
(* agent loop, the group config files, and the chat log.  Tide and its     *)
(* quiet window, the memory index sync, and the library functions          *)
(* getMemoryConfig, memory_search, executeEdit, executeApplyPatch and      *)
(* buildCliArgs.  The browse sessions (getOrCreateSession and              *)
(* runWithSessionRetry), and the runner's timers with reminders weeks      *)
(* ahead.                                                                  *)
(***************************************************************************)
EXTENDS Integers, Sequences, FiniteSets, Bags, TLC

(* ------------------------------ bounds --------------------------------- *)
MaxTime == 2
MaxJobs == 2
MaxRuns == 2
MaxCrashes == 1
MaxTicks == 1
maxIterations == 3
MaxLines == 2
MaxTs == 3
MaxExchanges == 2
MaxClock == 1500
MaxMtime == 2
MaxContent == 3
MaxFileLines == 3
MaxHunkLines == 3
MaxCalls == 2
MaxBrowsers == 3
MaxTimers == 2
MaxFarTime == 35800

(* ------------------------- program constants --------------------------- *)
MAX_RETRIES == 2
TIMEOUT_MAX == 2147483647
RETRY_DELAYS_MS == <<5000, 15000>>

JobIds == 1..MaxJobs
NumericJid == "7656021862"
WhatsAppJid == "test-e2e@s.whatsapp.net"
NoJid == "null"
Jids == {NumericJid, WhatsAppJid}

VARIABLES
  now,                \* Date.now(), in minutes; always > 0
  store,              \* the jobs of cron/jobs.json: job id -> job
  nextId,             \* the next fresh job id addJob hands out
  currentSock,        \* runner.js:18
  currentTelegramBot, \* runner.js:20
  currentSelfJid,     \* runner.js:21
  currentStorePath,   \* runner.js:22
  scheduled,          \* runner.js:14, the live croner schedules (a bag)
  oneShotTimeouts,    \* runner.js:16, the setTimeout handles still pending (a bag)
  runs,               \* the runJob invocations in flight (a bag)
  outbox,             \* per job, the messages a transport delivered for it
  done,               \* per one-shot job: how its run ended, once the step after runJob ran
  ticks,              \* croner callbacks fired so far
  crashes             \* process crashes so far

vars == <<now, store, nextId, currentSock, currentTelegramBot, currentSelfJid,
          currentStorePath, scheduled, oneShotTimeouts, runs, outbox, done,
          ticks, crashes>>

\* the state outside the cron engine
VARIABLES
  files,              \* the config files: path -> content (config.json of main and groups)
  turn,               \* the agent turn in progress (lib/agent.js runAgentTurn)
  chatLog             \* the files under workspace/: path -> lines

agentVars == <<files, turn>>
chatLogVars == <<chatLog>>

\* Tide, the memory index, and the last call of a library function
VARIABLES
  tide,               \* the Tide scheduler: clock, quiet window, last activity
  index,              \* the memory index and the source files it is synced from
  lastCall            \* the last library call: its function, input and output

\* the browse sessions, and the job ids the cron skill has removed
VARIABLES
  browse,             \* browse.js: sessionByKey, the browsers launched, the calls in progress
  removed             \* the ids of the jobs a cron skill "remove" has deleted

toolVars == <<browse, removed>>
libVars == <<tide, index, lastCall, toolVars>>
allVars == <<vars, agentVars, chatLogVars, libVars>>

One(x) == SetToBag({x})

(* ------------------------------ the store ------------------------------ *)
\* cron/store.js is not part of the sources; modelled from the specification:
\* addJob appends one job with a fresh id, updateJob patches the job with that
\* id (no job, no change), removeJob deletes it, loadJobs lists in file order.
addJob(st, input, id) ==
  [i \in DOMAIN st \cup {id} |->
     IF i = id THEN [id |-> id, enabled |-> input.enabled, kind |-> input.kind,
                     at |-> input.at, expr |-> input.expr, jid |-> input.jid,
                     sentAtMs |-> 0]
     ELSE st[i]]

updateJob(st, id, sentAtMs) ==
  [i \in DOMAIN st |-> IF i = id THEN [st[i] EXCEPT !.sentAtMs = sentAtMs] ELSE st[i]]

removeJob(st, id) == [i \in DOMAIN st \ {id} |-> st[i]]

RECURSIVE SortedIds(_)
SortedIds(S) ==
  IF S = {} THEN <<>>
  ELSE LET m == CHOOSE x \in S : \A y \in S : x <= y
       IN <<m>> \o SortedIds(S \ {m})

loadJobs(st) == [k \in 1..Cardinality(DOMAIN st) |-> st[SortedIds(DOMAIN st)[k]]]

\* lib/telegram.js is not part of the sources; the specification: a numeric chat
\* identifier is a Telegram chat id.
isTelegramChatId(jid) == jid = NumericJid

(* ------------------------------ the runner ----------------------------- *)
\* sendCronReply: the transport a text for jid goes out on; "none" = it throws.
sendCronReply(bot, sock, jid) ==
  IF bot = "bot" /\ isTelegramChatId(jid) THEN "telegram"
  ELSE IF sock # "none" THEN "sock"
  ELSE "none"

\* runJob up to its first await: no JID, log and return; else attempt 0 begins.
runJob(job, selfJid, origin) ==
  LET jid == IF job.jid # NoJid THEN job.jid ELSE selfJid
  IN [pc |-> IF jid = NoJid THEN "returned" ELSE "try",
      id |-> job.id, jid |-> jid, origin |-> origin,
      attempt |-> 0, tries |-> 0, slept |-> <<>>, ok |-> FALSE, apologies |-> 0]

ShouldRetryOnce(attempt) == attempt < 1

\* the catch block of runJob's loop: sleep and retry while attempt < MAX_RETRIES
ShouldRetry(attempt) == attempt < MAX_RETRIES

\* runJob without the catch around the last attempt
runJobStepUncaught(r, succeeded) ==
  IF succeeded
  THEN [r EXCEPT !.pc = "returned", !.ok = TRUE, !.tries = @ + 1]
  ELSE IF ShouldRetry(r.attempt)
       THEN [r EXCEPT !.tries = @ + 1, !.attempt = @ + 1,
                      !.slept = Append(@, RETRY_DELAYS_MS[r.attempt + 1])]
       ELSE [r EXCEPT !.tries = @ + 1, !.pc = "raised"]

\* runJob after runJobOnce returned (succeeded) or threw
runJobStep(r, succeeded) ==
  IF succeeded
  THEN [r EXCEPT !.pc = "returned", !.ok = TRUE, !.tries = @ + 1]
  ELSE IF ShouldRetry(r.attempt)
       THEN [r EXCEPT !.tries = @ + 1, !.attempt = @ + 1,
                      !.slept = Append(@, RETRY_DELAYS_MS[r.attempt + 1])]
       ELSE [r EXCEPT !.tries = @ + 1, !.pc = "apology"]

AlreadySentIgnored(job) == FALSE

\* the check "if (job.sentAtMs) continue / return"
AlreadySent(job) == job.sentAtMs # 0

\* the longest delay, in whole minutes, that is at most TIMEOUT_MAX milliseconds
TIMEOUT_MAX_MINUTES == TIMEOUT_MAX \div 60000

\* setTimeout(callback, ms) at time t, ms being delay minutes: when the callback
\* is due.  A delay above TIMEOUT_MAX milliseconds is replaced by 1 millisecond.
setTimeout(t, delay) ==
  IF delay > TIMEOUT_MAX_MINUTES THEN t ELSE t + delay

\* the timer of a one-shot job set at time t
Timer(job, t) ==
  [id |-> job.id, at |-> job.at, jid |-> job.jid, due |-> setTimeout(t, job.at - t)]

\* the guard of scheduleOneShot that needs the runner started
RunnerReady(sock, storePath) == sock # "none" /\ storePath # "none"

\* scheduleOneShot: the pending timers after the call
scheduleOneShot(job, sock, storePath, t, timeouts) ==
  IF job.kind # "at" \/ job.at = 0 \/ ~RunnerReady(sock, storePath)
  THEN timeouts
  ELSE IF AlreadySent(job) THEN timeouts
  ELSE IF job.at - t <= 0 THEN timeouts
  ELSE timeouts (+) One(Timer(job, t))

MarkSentSkipped(st, id, t) == st

\* the mark written before a one-shot runs (timer callback and overdue path)
MarkSent(st, id, t) == updateJob(st, id, t)

AfterRunStoreKeeps(origin, st, id) == st

AfterRunStoreRemoves(origin, st, id) == removeJob(st, id)

\* the step after runJob returned: one-shot paths remove the job, a tick does not
AfterRunStore(origin, st, id) ==
  IF origin \in {"timeout", "overdue"} THEN removeJob(st, id) ELSE st

IsOverdueRun(r) == r.origin = "overdue" /\ r.pc # "returned"

OverdueOneAtATime(acc, job, selfJid, t) ==
  IF \E r \in BagToSet(acc.runs) : IsOverdueRun(r) THEN acc
  ELSE [acc EXCEPT !.store = updateJob(@, job.id, t),
                   !.runs = @ (+) One(runJob(job, selfJid, "overdue"))]

\* startCron's overdue branch: mark, then start runJob without awaiting it
OverdueBranch(acc, job, selfJid, t) ==
  [acc EXCEPT !.store = MarkSent(@, job.id, t),
              !.runs = @ (+) One(runJob(job, selfJid, "overdue"))]

\* startCron's loop over the one-shot jobs, in file order
RECURSIVE AtLoop(_, _, _, _, _, _)
AtLoop(jobs, acc, sock, storePath, selfJid, t) ==
  IF jobs = <<>> THEN acc
  ELSE
    LET job == Head(jobs)
        next ==
          IF AlreadySent(job) THEN acc
          ELSE IF job.at > t
               THEN [acc EXCEPT !.timeouts =
                       scheduleOneShot(job, sock, storePath, t, @)]
               ELSE OverdueBranch(acc, job, selfJid, t)
    IN AtLoop(Tail(jobs), next, sock, storePath, selfJid, t)

cronJobsOf(jobs) == SelectSeq(jobs, LAMBDA j : j.enabled /\ j.kind = "cron" /\ j.expr # "")
atJobsOf(jobs) == SelectSeq(jobs, LAMBDA j : j.enabled /\ j.kind = "at" /\ j.at # 0)
Overdue(jobs, t) == SelectSeq(atJobsOf(jobs), LAMBDA j : ~AlreadySent(j) /\ ~(j.at > t))

RECURSIVE SeqToBag(_)
SeqToBag(seq) == IF seq = <<>> THEN EmptyBag ELSE One(Head(seq)) (+) SeqToBag(Tail(seq))

\* A continuation of "await runJob" is a microtask: once runJob has returned, it
\* runs before any timer, tick, or other turn of the event loop gets its turn.
NoMicrotask == \A r \in BagToSet(runs) : r.pc # "returned"

\* startCron keeping the timers of earlier calls
KeptTimeouts(timeouts) == timeouts

\* "for (const t of oneShotTimeouts) clearTimeout(t); oneShotTimeouts.length = 0"
ClearedTimeouts(timeouts) == EmptyBag

\* startCron({ sock, selfJid, storePath, telegramBot })
StartCron(sock, selfJid, storePath, telegramBot) ==
  LET sock1 == IF sock # "none" /\ sock # "telegram" THEN sock ELSE currentSock
      bot1 == IF telegramBot # "undefined" THEN telegramBot ELSE currentTelegramBot
      self1 == IF selfJid # NoJid THEN selfJid ELSE currentSelfJid
      path1 == IF storePath # "none" THEN storePath ELSE currentStorePath
      jobs == loadJobs(store)
      cronJobs == cronJobsOf(jobs)
      res == AtLoop(atJobsOf(jobs),
                    [store |-> store, timeouts |-> ClearedTimeouts(oneShotTimeouts),
                     runs |-> runs],
                    sock1, path1, selfJid, now)
  IN /\ NoMicrotask
     /\ BagCardinality(runs) + Len(Overdue(jobs, now)) <= MaxRuns
     /\ currentSock' = sock1
     /\ currentTelegramBot' = bot1
     /\ currentSelfJid' = self1
     /\ currentStorePath' = path1
     /\ scheduled' = SeqToBag([k \in 1..Len(cronJobs) |->
                        [id |-> cronJobs[k].id, jid |-> cronJobs[k].jid,
                         selfJid |-> selfJid]])
     /\ oneShotTimeouts' = res.timeouts
     /\ store' = res.store
     /\ runs' = res.runs
     /\ UNCHANGED <<agentVars, chatLogVars, libVars>>
     /\ UNCHANGED <<now, nextId, outbox, done, ticks, crashes>>

\* stopCron()
StopCron ==
  /\ NoMicrotask
  /\ scheduled' = EmptyBag
  /\ oneShotTimeouts' = EmptyBag
  /\ UNCHANGED <<agentVars, chatLogVars, libVars>>
  /\ UNCHANGED <<now, store, nextId, currentSock, currentTelegramBot, currentSelfJid,
                 currentStorePath, runs, outbox, done, ticks, crashes>>

\* the setTimeout callback of scheduleOneShot, up to its first await
OneShotFires(t) ==
  /\ NoMicrotask
  /\ BagIn(t, oneShotTimeouts)
  /\ t.due <= now
  /\ BagCardinality(runs) < MaxRuns
  /\ store' = MarkSent(store, t.id, now)
  /\ runs' = runs (+) One(runJob([id |-> t.id, jid |-> t.jid], currentSelfJid, "timeout"))
  /\ oneShotTimeouts' = oneShotTimeouts (-) One(t)
  /\ UNCHANGED <<agentVars, chatLogVars, libVars>>
  /\ UNCHANGED <<now, nextId, currentSock, currentTelegramBot, currentSelfJid,
                 currentStorePath, scheduled, outbox, done, ticks, crashes>>

\* a croner tick of a recurring job
CronFires(c) ==
  /\ NoMicrotask
  /\ BagIn(c, scheduled)
  /\ ticks < MaxTicks
  /\ BagCardinality(runs) < MaxRuns
  /\ ticks' = ticks + 1
  /\ runs' = runs (+) One(runJob([id |-> c.id, jid |-> c.jid], c.selfJid, "cron"))
  /\ UNCHANGED <<agentVars, chatLogVars, libVars>>
  /\ UNCHANGED <<now, store, nextId, currentSock, currentTelegramBot, currentSelfJid,
                 currentStorePath, scheduled, oneShotTimeouts, outbox, done, crashes>>

Message(kind, r, via) == [kind |-> kind, origin |-> r.origin, jid |-> r.jid, via |-> via]

\* one runJobOnce: the agent turn, then sendCronReply of a non-empty text
RunJobOnce(r, outcome) ==
  LET via == sendCronReply(currentTelegramBot, currentSock, r.jid)
      succeeded == outcome \in {"emptyText", "sendOk"}
  IN /\ NoMicrotask
     /\ BagIn(r, runs)
     /\ r.pc = "try"
     /\ outcome = "sendOk" => via # "none"
     /\ runs' = (runs (-) One(r)) (+) One(runJobStep(r, succeeded))
     /\ outbox' = IF outcome = "sendOk"
                  THEN [outbox EXCEPT ![r.id] = Append(@, Message("reply", r, via))]
                  ELSE outbox
     /\ UNCHANGED <<agentVars, chatLogVars, libVars>>
     /\ UNCHANGED <<now, store, nextId, currentSock, currentTelegramBot, currentSelfJid,
                    currentStorePath, scheduled, oneShotTimeouts, done, ticks, crashes>>

\* the apology after the last failed attempt; its own failure is swallowed
SendApology(r, delivered) ==
  LET via == sendCronReply(currentTelegramBot, currentSock, r.jid)
  IN /\ NoMicrotask
     /\ BagIn(r, runs)
     /\ r.pc = "apology"
     /\ delivered => via # "none"
     /\ runs' = (runs (-) One(r))
                  (+) One([r EXCEPT !.pc = "returned", !.apologies = @ + 1])
     /\ outbox' = IF delivered
                  THEN [outbox EXCEPT ![r.id] = Append(@, Message("apology", r, via))]
                  ELSE outbox
     /\ UNCHANGED <<agentVars, chatLogVars, libVars>>
     /\ UNCHANGED <<now, store, nextId, currentSock, currentTelegramBot, currentSelfJid,
                    currentStorePath, scheduled, oneShotTimeouts, done, ticks, crashes>>

Outcome(r) == IF r.ok THEN "ok" ELSE IF r.tries = 0 THEN "nojid" ELSE "failed"

\* what follows "await runJob(...)" in the caller
AfterRunJob(r) ==
  /\ BagIn(r, runs)
  /\ r.pc = "returned"
  /\ store' = AfterRunStore(r.origin, store, r.id)
  /\ done' = IF r.origin = "cron" THEN done ELSE [done EXCEPT ![r.id] = Outcome(r)]
  /\ runs' = runs (-) One(r)
  /\ UNCHANGED <<agentVars, chatLogVars, libVars>>
  /\ UNCHANGED <<now, nextId, currentSock, currentTelegramBot, currentSelfJid,
                 currentStorePath, scheduled, oneShotTimeouts, outbox, ticks, crashes>>

\* time passes
Tick ==
  /\ NoMicrotask
  /\ now < MaxTime
  /\ now' = now + 1
  /\ UNCHANGED <<agentVars, chatLogVars, libVars>>
  /\ UNCHANGED <<store, nextId, currentSock, currentTelegramBot, currentSelfJid,
                 currentStorePath, scheduled, oneShotTimeouts, runs, outbox, done, ticks, crashes>>

\* the process dies and is started again: module state is lost, the store file stays
Crash ==
  /\ crashes < MaxCrashes
  /\ crashes' = crashes + 1
  /\ currentSock' = "none"
  /\ currentTelegramBot' = "none"
  /\ currentSelfJid' = NoJid
  /\ currentStorePath' = "none"
  /\ scheduled' = EmptyBag
  /\ oneShotTimeouts' = EmptyBag
  /\ runs' = EmptyBag
  /\ UNCHANGED <<agentVars, chatLogVars, libVars>>
  /\ UNCHANGED <<now, store, nextId, outbox, done, ticks>>

(* ----------------------------- the cron skill -------------------------- *)
EveryFiveMinutes == "*/5 * * * *"

\* coerceSchedule: the schedule as stored, or "null"; a missing field is 0 or ""
coerceSchedule(schedule) ==
  LET kind == IF schedule.kind \in {"at", "cron"} THEN schedule.kind
              ELSE IF schedule.expr # "" THEN "cron"
              ELSE IF schedule.at # 0 THEN "at"
              ELSE "null"
  IN IF kind = "null" THEN [kind |-> "null", at |-> 0, expr |-> ""]
     ELSE [kind |-> kind,
           at |-> IF kind = "at" THEN schedule.at ELSE 0,
           expr |-> IF kind = "cron" THEN schedule.expr ELSE ""]

\* normalizeJobAdd: the job handed to addJob (schedule "null": it throws)
normalizeJobAdd(schedule, jid) ==
  LET sch == coerceSchedule(schedule)
  IN [enabled |-> TRUE, kind |-> sch.kind, at |-> sch.at, expr |-> sch.expr,
      jid |-> jid]

ExecuteAddTwice(st, input, id) == addJob(addJob(st, input, id), input, id + 1)

ExecuteAddUnlessSameAt(st, input, id) ==
  IF \E i \in DOMAIN st : st[i].kind = "at" /\ input.kind = "at" /\ st[i].at = input.at
  THEN st
  ELSE addJob(st, input, id)

\* the store after an accepted add: one addJob
ExecuteAdd(st, input, id) == addJob(st, input, id)

\* the store after a list: loadJobs only reads
ExecuteList(st) == st

\* the checks of add that throw
AddRejected(input, t) ==
  \/ input.kind = "null"
  \/ input.kind = "at" /\ input.at # 0 /\ input.at <= t

\* action "list": formatJobList over loadJobs
CronList ==
  /\ NoMicrotask
  /\ store' = ExecuteList(store)
  /\ UNCHANGED <<agentVars, chatLogVars, libVars>>
  /\ UNCHANGED <<now, nextId, currentSock, currentTelegramBot, currentSelfJid,
                 currentStorePath, scheduled, oneShotTimeouts, runs, outbox, done, ticks, crashes>>

\* action "add"; a rejected add throws and changes nothing
CronAdd(schedule, jid) ==
  LET input == normalizeJobAdd(schedule, jid)
      job == [id |-> nextId, kind |-> input.kind, at |-> input.at, jid |-> input.jid,
              sentAtMs |-> 0]
  IN /\ NoMicrotask
     /\ ~AddRejected(input, now)
     /\ nextId <= MaxJobs
     /\ store' = ExecuteAdd(store, input, nextId)
     /\ nextId' = nextId + 1
     /\ oneShotTimeouts' =
          IF job.kind = "at"
          THEN scheduleOneShot(job, currentSock, currentStorePath, now, oneShotTimeouts)
          ELSE oneShotTimeouts
     /\ UNCHANGED <<agentVars, chatLogVars, libVars>>
     /\ UNCHANGED <<now, currentSock, currentTelegramBot, currentSelfJid,
                    currentStorePath, scheduled, runs, outbox, done, ticks, crashes>>

\* action "remove"
CronRemove(jobId) ==
  /\ NoMicrotask
  /\ store' = removeJob(store, jobId)
  /\ removed' = IF jobId \in DOMAIN store THEN removed \cup {jobId} ELSE removed
  /\ UNCHANGED <<agentVars, chatLogVars, tide, index, lastCall, browse>>
  /\ UNCHANGED <<now, nextId, currentSock, currentTelegramBot, currentSelfJid,
                 currentStorePath, scheduled, oneShotTimeouts, runs, outbox, done, ticks, crashes>>

\* scheduleOneShot(job) called for a job of the store
ScheduleOneShot(id) ==
  /\ NoMicrotask
  /\ id \in DOMAIN store
  /\ BagCardinality(oneShotTimeouts) < MaxTimers
  /\ oneShotTimeouts' =
       scheduleOneShot(store[id], currentSock, currentStorePath, now, oneShotTimeouts)
  /\ UNCHANGED <<agentVars, chatLogVars, libVars>>
  /\ UNCHANGED <<now, store, nextId, currentSock, currentTelegramBot, currentSelfJid,
                 currentStorePath, scheduled, runs, outbox, done, ticks, crashes>>

\* weeks pass
TimePasses(minutes) ==
  /\ NoMicrotask
  /\ now + minutes <= MaxFarTime
  /\ now' = now + minutes
  /\ UNCHANGED <<agentVars, chatLogVars, libVars>>
  /\ UNCHANGED <<store, nextId, currentSock, currentTelegramBot, currentSelfJid,
                 currentStorePath, scheduled, oneShotTimeouts, runs, outbox, done, ticks, crashes>>

(* ------------------------- skills: the dispatcher ----------------------- *)
\* the keys of EXECUTORS
EXECUTORS == {"cron", "search", "browse", "vision", "memory", "speech", "gog", "read",
              "write", "edit", "apply-patch", "core", "home-assistant", "me"}

CORE_SKILL_ID == "core"

\* the skills loadSkills found (a folder with an index.js each)
SKILLS_CACHE == {"cron", "memory", "vision", "home-assistant"}

\* property names an object literal inherits from Object.prototype
ObjectPrototype == {"constructor", "__proto__"}

\* obj[key] for an object literal with these own keys: its own value ("own"), the
\* inherited value (named by the key), or undefined
Lookup(keys, key) ==
  IF key \in keys THEN "own"
  ELSE IF key \in ObjectPrototype THEN key
  ELSE "undefined"

\* a string result; error is the message of a JSON {"error": message}, "" if none
Str(error) == [type |-> "string", error |-> error]

GroupChatError == "The core skill is not available in group chats."

ALLOWED == {"ls", "cd", "pwd", "cat", "less", "cp", "mv", "rm", "touch", "chmod"}

\* the characters of a path that matter to sh: a plain one, the double quote, the
\* backslash, and a command substitution, taken as one character
DQ == "\""
BS == "\\"
SUBST == "$(id)"

\* path.replace(/"/g, '\\"')
RECURSIVE EscapeQuotes(_)
EscapeQuotes(path) ==
  IF path = <<>> THEN <<>>
  ELSE (IF Head(path) = DQ THEN <<BS, DQ>> ELSE <<Head(path)>>) \o EscapeQuotes(Tail(path))

\* sh -c 'cd "<text>" && pwd': the programs the shell runs while expanding the
\* text.  A backslash takes the next character literally; a command substitution
\* runs inside double quotes and outside them alike.
RECURSIVE ShellRuns(_)
ShellRuns(text) ==
  IF text = <<>> THEN {}
  ELSE IF Head(text) = BS
       THEN (IF Len(text) >= 2 THEN ShellRuns(Tail(Tail(text))) ELSE {})
  ELSE IF Head(text) = SUBST THEN {"id"} \cup ShellRuns(Tail(text))
  ELSE ShellRuns(Tail(text))

\* (args.command || args.action || '').toString().trim().toLowerCase()
trimLower(command) == IF command = " LS" THEN "ls" ELSE command

\* executeCore: its result and the programs it caused to run
executeCore(ctx, args) ==
  LET cmd == trimLower(args.command)
  IN IF cmd \notin ALLOWED
     THEN [result |-> Str("Unknown core command"), spawned |-> {}]
     ELSE IF cmd = "cd"
          THEN [result |-> Str(""),
                spawned |-> {"sh"} \cup ShellRuns(EscapeQuotes(args.path))]
          ELSE [result |-> Str(""), spawned |-> {cmd}]

\* what an executor outside these sources did: returned a string, returned an
\* object (JSON.stringify'd by the dispatcher), or threw an Error
ExecutorOutcomes == {"string", "object", "throws"}

ExecutorThrew == "executor error"

Ran(outcome) == Str(IF outcome = "throws" THEN ExecutorThrew ELSE "")

\* executeSkill of skills/executor.js
executeSkill(skillId, ctx, args, outcome) ==
  IF skillId = CORE_SKILL_ID /\ ctx.isGroup
  THEN [result |-> Str(GroupChatError), ran |-> "none", spawned |-> {}]
  ELSE
    LET run == Lookup(EXECUTORS, skillId)
    IN CASE run = "undefined" ->
              [result |-> Str("Unknown skill"), ran |-> "none", spawned |-> {}]
         [] run = "constructor" ->
              \* run is Object: Object(ctx) is ctx, returned JSON.stringify'd
              [result |-> Str(""), ran |-> "Object", spawned |-> {}]
         [] run = "__proto__" ->
              \* run is Object.prototype, not a function: the TypeError is caught
              [result |-> Str("run is not a function"), ran |-> "none", spawned |-> {}]
         [] OTHER ->
              IF skillId = CORE_SKILL_ID
              THEN [result |-> executeCore(ctx, args).result, ran |-> skillId,
                    spawned |-> executeCore(ctx, args).spawned]
              ELSE [result |-> Ran(outcome), ran |-> skillId, spawned |-> {}]

\* executeSkill of skills/registry.js
registryExecuteSkill(skillId, ctx, args, outcome) ==
  LET skill == Lookup(SKILLS_CACHE, skillId)
  IN CASE skill = "undefined" ->
            [result |-> Str("Unknown skill"), ran |-> "none", spawned |-> {}]
       [] skill \in ObjectPrototype ->
            \* skill.execute is undefined: the TypeError is caught
            [result |-> Str("skill.execute is not a function"), ran |-> "none",
             spawned |-> {}]
       [] OTHER -> [result |-> Ran(outcome), ran |-> skillId, spawned |-> {}]

Dispatchers == {"executor", "registry"}

Dispatched(dispatcher, skillId, ctx, args, outcome) ==
  IF dispatcher = "executor" THEN executeSkill(skillId, ctx, args, outcome)
  ELSE registryExecuteSkill(skillId, ctx, args, outcome)

(* ------------------------------ config files --------------------------- *)
DEFAULT_ENABLED == <<"cron", "browser", "memory">>
GROUP_DEFAULT_EXCLUDED == {"core", "read", "cron"}
FALLBACK_GROUP_ENABLED == <<"search", "browse", "vision", "memory", "speech", "gog">>
MainFallbackEnabled ==
  <<"cron", "search", "browse", "vision", "memory", "speech", "gog", "read">>

GroupId == "-12345"
GroupIds == {"default", GroupId}

ConfigPath == "config.json"
MarkerPath == "group/.initialized"
getGroupConfigPath(groupId) ==
  IF groupId = "default" THEN "group/config.json" ELSE "groups/-12345/config.json"

FilePaths == {ConfigPath, MarkerPath} \cup {getGroupConfigPath(g) : g \in GroupIds}

\* what a file holds: nothing (no such file), text that is not JSON, JSON without
\* a skills.enabled array, JSON with one, the marker's timestamp
Absent == [kind |-> "absent", enabled |-> <<>>]
Invalid == [kind |-> "invalid", enabled |-> <<>>]
NoSkills == [kind |-> "noSkills", enabled |-> <<>>]
Json(enabled) == [kind |-> "json", enabled |-> enabled]
Marker == [kind |-> "marker", enabled |-> <<>>]

existsSync(f, path) == f[path].kind # "absent"
Parses(f, path) == f[path].kind \in {"noSkills", "json"}

NoFiles == [path \in FilePaths |-> Absent]

Range(seq) == {seq[k] : k \in 1..Len(seq)}

filterGroupEnabled(ids) == SelectSeq(ids, LAMBDA id : id \notin GROUP_DEFAULT_EXCLUDED)

\* getSkillsConfig().enabled of skills/registry.js
getSkillsConfig(f) ==
  IF f[ConfigPath].kind = "json" THEN f[ConfigPath].enabled ELSE DEFAULT_ENABLED

\* getEnabledTools: the skills whose tools are exposed
getEnabledTools(f) ==
  SelectSeq(getSkillsConfig(f), LAMBDA id : Lookup(SKILLS_CACHE, id) # "undefined")

RECURSIVE getGroupSkillsEnabled(_, _)
getGroupSkillsEnabled(groupId, f) ==
  LET path == getGroupConfigPath(groupId)
  IN IF existsSync(f, path) /\ Parses(f, path)
     THEN (IF f[path].kind = "json" THEN f[path].enabled ELSE FALLBACK_GROUP_ENABLED)
     ELSE IF groupId # "default" THEN getGroupSkillsEnabled("default", f)
     ELSE IF f[ConfigPath].kind = "json" THEN filterGroupEnabled(f[ConfigPath].enabled)
     ELSE FALLBACK_GROUP_ENABLED

\* ensureGroupConfigFor: the files after the call
RECURSIVE ensureGroupConfigFor(_, _)
ensureGroupConfigFor(groupId, f) ==
  LET configPath == getGroupConfigPath(groupId)
  IN IF existsSync(f, configPath) THEN f
     ELSE IF groupId = "default"
     THEN IF existsSync(f, MarkerPath) THEN f
          ELSE IF f[ConfigPath].kind = "invalid" THEN f
          ELSE LET mainEnabled == IF f[ConfigPath].kind = "json" THEN f[ConfigPath].enabled
                                  ELSE MainFallbackEnabled
               IN [f EXCEPT ![configPath] = Json(filterGroupEnabled(mainEnabled)),
                            ![MarkerPath] = Marker]
     ELSE LET f1 == ensureGroupConfigFor("default", f)
              defaultPath == getGroupConfigPath("default")
          IN IF existsSync(f1, defaultPath) /\ Parses(f1, defaultPath)
             THEN [f1 EXCEPT ![configPath] = f1[defaultPath]]
             ELSE f1

\* a config file is written or deleted by hand or by another program
EditConfig(path, content) ==
  /\ files[path] # content
  /\ files' = [files EXCEPT ![path] = content]
  /\ UNCHANGED <<vars, turn, chatLogVars, libVars>>

\* a group chat is seen: ensureGroupConfigFor(groupId)
EnsureGroupConfigFor(groupId) ==
  /\ files' = ensureGroupConfigFor(groupId, files)
  /\ UNCHANGED <<vars, turn, chatLogVars, libVars>>

(* ------------------------------ the agent loop ------------------------- *)
\* lib/agent.js is not part of the sources; the loop is the specification's: call
\* the model; terminal text ends the turn; tool calls are dispatched in order, one
\* tool message each, then the model is called again; after maxIterations model
\* calls the turn ends with "stopped after N tool steps".
GroupJid == "123456789@g.us"

\* String(jid).trim().endsWith('@g.us')
isWhatsAppGroupJid(jid) == jid = GroupJid

NoArgs == [command |-> "", path |-> <<>>]

CoreArgs ==
  { [command |-> "ls", path |-> <<"d">>],
    [command |-> " LS", path |-> <<>>],
    [command |-> "curl", path |-> <<"d">>],
    [command |-> "cd", path |-> <<"d">>],
    [command |-> "cd", path |-> <<SUBST>>],
    [command |-> "cd", path |-> <<DQ, SUBST>>] }

ToolCall(id, skill, args) == [id |-> id, skill |-> skill, args |-> args]

\* the skills a tool call names: the model's output is not bound to the tool list
CalledSkills == {"cron", "read", "constructor", "__proto__", "nope"}

\* what the model returns when it asks for tools: one call, or two calls with
\* their ids in either order
ToolCallResponses ==
  { <<ToolCall("call_1", s, NoArgs)>> : s \in CalledSkills }
    \cup { <<ToolCall("call_1", CORE_SKILL_ID, a)>> : a \in CoreArgs }
    \cup { <<ToolCall(ids[1], s[1], NoArgs), ToolCall(ids[2], s[2], NoArgs)>> :
             ids \in {<<"call_1", "call_2">>, <<"call_2", "call_1">>},
             s \in {<<"cron", "read">>, <<"read", "cron">>, <<"cron", "cron">>} }

\* terminal texts; one is a thinking block only
Texts == {"hi", "<think>hm</think>"}

\* stripping of thinking blocks from a terminal text
StripThinking(text) == IF text = "<think>hm</think>" THEN "" ELSE text

CapText == "stopped after N tool steps"

NoDispatch ==
  [skillId |-> "none", via |-> "none", known |-> FALSE, enabled |-> FALSE,
   threw |-> FALSE, result |-> Str(""), ran |-> "none", spawned |-> {}]

IdleTurn ==
  [pc |-> "idle", origin |-> "none", jid |-> NoJid, isGroup |-> FALSE,
   modelCalls |-> 0, calls |-> <<>>, toolMessages |-> <<>>, reply |-> "",
   capped |-> FALSE, last |-> NoDispatch]

\* ctx of a turn: a live chat turn carries isGroup; the ctx runJobOnce builds has
\* storePath, jid, workspaceDir, scheduleOneShot and startCron only
TurnCtx(origin, jid) ==
  [jid |-> jid, isGroup |-> IF origin = "live" THEN isWhatsAppGroupJid(jid) ELSE FALSE]

CapNever(modelCalls) == FALSE

\* the per-turn cap on model calls
CapReached(modelCalls) == modelCalls >= maxIterations

NextToolCallLast(t) == Len(t.calls) - Len(t.toolMessages)

\* the position in the response of the tool call dispatched next
NextToolCall(t) == Len(t.toolMessages) + 1

\* a turn begins: live chat message, or runJobOnce for a job with this jid
StartTurn(origin, jid) ==
  /\ turn.pc \in {"idle", "done"}
  /\ turn' = [IdleTurn EXCEPT !.pc = "model", !.origin = origin, !.jid = jid,
                              !.isGroup = TurnCtx(origin, jid).isGroup]
  /\ UNCHANGED <<vars, files, chatLogVars, libVars>>

\* the model answers with terminal text
ModelReturnsText(text) ==
  /\ turn.pc = "model"
  /\ turn.modelCalls <= maxIterations
  /\ turn' = [turn EXCEPT !.pc = "done", !.modelCalls = @ + 1,
                          !.reply = StripThinking(text)]
  /\ UNCHANGED <<vars, files, chatLogVars, libVars>>

\* the model answers with tool calls
ModelReturnsToolCalls(calls) ==
  /\ turn.pc = "model"
  /\ turn.modelCalls <= maxIterations
  /\ turn' = [turn EXCEPT !.pc = "dispatch", !.modelCalls = @ + 1,
                          !.calls = calls, !.toolMessages = <<>>]
  /\ UNCHANGED <<vars, files, chatLogVars, libVars>>

\* the next tool call goes to the dispatcher and its result is appended as a tool
\* message; after the last one the model is called again unless the cap is reached
DispatchToolCall(dispatcher, outcome) ==
  LET k == NextToolCall(turn)
      call == turn.calls[k]
      ctx == [jid |-> turn.jid, isGroup |-> turn.isGroup]
      d == Dispatched(dispatcher, call.skill, ctx, call.args, outcome)
      messages == Append(turn.toolMessages,
                         [role |-> "tool", tool_call_id |-> call.id,
                          name |-> call.skill, content |-> d.result])
      finished == Len(messages) = Len(turn.calls)
      known == call.skill \in (IF dispatcher = "executor" THEN EXECUTORS ELSE SKILLS_CACHE)
  IN /\ turn.pc = "dispatch"
     /\ k \in 1..Len(turn.calls)
     /\ turn' = [turn EXCEPT
          !.toolMessages = messages,
          !.last = [skillId |-> call.skill, via |-> dispatcher, known |-> known,
                    enabled |-> call.skill \in Range(getSkillsConfig(files)),
                    threw |-> d.ran \in (EXECUTORS \ {CORE_SKILL_ID}) /\ outcome = "throws",
                    result |-> d.result, ran |-> d.ran, spawned |-> d.spawned],
          !.pc = IF ~finished THEN "dispatch"
                 ELSE IF CapReached(turn.modelCalls) THEN "done" ELSE "model",
          !.capped = finished /\ CapReached(turn.modelCalls),
          !.reply = IF finished /\ CapReached(turn.modelCalls) THEN CapText ELSE @]
     /\ UNCHANGED <<vars, files, chatLogVars, libVars>>

(* -------------------------------- chat log ----------------------------- *)
\* Texts, jids and file names are sequences of characters; a file is the sequence
\* of its JSON lines, each the record that was stringified (JSON.stringify puts a
\* record on one line and JSON.parse gives the record back).
CHAT_LOG_DIR == "chat-log"
PRIVATE_CHAT_DIR == <<"private">>

GroupLogInChatLog == "chat-log"

GROUP_CHAT_LOG_DIR == "group-chat-log"

NullJid == <<"null">>
NoText == <<"(no text)">>
Unknown == <<"unknown">>

NoLines == <<>>

RECURSIVE TrimStart(_)
TrimStart(s) == IF s # <<>> /\ Head(s) = " " THEN TrimStart(Tail(s)) ELSE s

RECURSIVE TrimEnd(_)
TrimEnd(s) ==
  IF s # <<>> /\ s[Len(s)] = " " THEN TrimEnd(SubSeq(s, 1, Len(s) - 1)) ELSE s

\* String(x).trim()
Trim(s) == TrimEnd(TrimStart(s))

\* s.replace(/[^...]/g, '_') for the characters kept
ReplaceOthers(s, kept) == [k \in 1..Len(s) |-> IF s[k] \in kept THEN s[k] ELSE "_"]

\* the characters of the model that /[0-9a-zA-Z._-]/ and /[0-9-]/ keep
SafeJidChars == {"7", ".", "_", "-"}
SafeGroupChars == {"7", "-"}

safeJidForFile(jid) ==
  IF jid = NullJid \/ Trim(jid) = <<>> THEN Unknown
  ELSE ReplaceOthers(Trim(jid), SafeJidChars)

\* safeId of appendGroupExchange
safeGroupId(groupJid) ==
  IF Trim(groupJid) = <<>> THEN <<"group">> ELSE ReplaceOthers(Trim(groupJid), SafeGroupChars)

\* the YYYY-MM-DD of a timestamp: two timestamps to a day
DateStr(timestampMs) ==
  IF (timestampMs + 1) \div 2 = 1 THEN <<"2025-02-16">> ELSE <<"2025-02-17">>

FilePath(root, dir, name) == [root |-> root, dir |-> dir, name |-> name]

appendFileSync(f, path, line) ==
  [p \in DOMAIN f \cup {path} |->
     IF p = path THEN (IF p \in DOMAIN f THEN Append(f[p], line) ELSE <<line>>)
     ELSE f[p]]

\* appendExchange: the files after the call
appendExchange(f, exchange) ==
  LET line == [ts |-> exchange.timestampMs, jid |-> exchange.jid,
               user |-> Trim(exchange.user), assistant |-> Trim(exchange.assistant)]
  IN IF exchange.jid # NullJid /\ Trim(exchange.jid) # <<>>
     THEN appendFileSync(f, FilePath(CHAT_LOG_DIR, PRIVATE_CHAT_DIR,
                                     safeJidForFile(exchange.jid)), line)
     ELSE appendFileSync(f, FilePath(CHAT_LOG_DIR, <<>>, DateStr(exchange.timestampMs)),
                         line)

\* appendGroupExchange: the files after the call; its line has no jid field
appendGroupExchange(f, groupJid, exchange) ==
  LET line == [ts |-> exchange.timestampMs, jid |-> NullJid,
               user |-> Trim(exchange.user), assistant |-> Trim(exchange.assistant)]
  IN appendFileSync(f, FilePath(GROUP_CHAT_LOG_DIR, safeGroupId(groupJid),
                                DateStr(exchange.timestampMs)), line)

FirstLines(lines, n) == SubSeq(lines, 1, IF Len(lines) < n THEN Len(lines) ELSE n)

\* lines.slice(-n)
LastLines(lines, n) ==
  SubSeq(lines, IF Len(lines) > n THEN Len(lines) - n + 1 ELSE 1, Len(lines))

\* x || '(no text)'
OrNoText(text) == IF text = <<>> THEN NoText ELSE text

RECURSIVE AsMessages(_)
AsMessages(rows) ==
  IF rows = <<>> THEN <<>>
  ELSE <<[role |-> "user", content |-> OrNoText(Trim(Head(rows).user))],
         [role |-> "assistant", content |-> OrNoText(Trim(Head(rows).assistant))]>>
         \o AsMessages(Tail(rows))

\* all.sort((a, b) => a.ts - b.ts): stable, ascending
RECURSIVE SortByTs(_)
SortByTs(rows) ==
  IF rows = <<>> THEN <<>>
  ELSE LET rest == SortByTs(Tail(rows))
           before == SelectSeq(rest, LAMBDA r : r.ts < Head(rows).ts)
           after == SelectSeq(rest, LAMBDA r : r.ts >= Head(rows).ts)
       IN before \o <<Head(rows)>> \o after

\* the date files of chat-log/, newest name first, their lines in file order
DateFileRows(f) ==
  LET newer == FilePath(CHAT_LOG_DIR, <<>>, <<"2025-02-17">>)
      older == FilePath(CHAT_LOG_DIR, <<>>, <<"2025-02-16">>)
  IN (IF newer \in DOMAIN f THEN f[newer] ELSE <<>>)
       \o (IF older \in DOMAIN f THEN f[older] ELSE <<>>)

readLastPrivateExchanges(f, jid, maxExchanges) ==
  LET perJidPath == FilePath(CHAT_LOG_DIR, PRIVATE_CHAT_DIR, safeJidForFile(jid))
      wantJid == IF jid = NullJid THEN NullJid ELSE Trim(jid)
      rowJid(row) == IF row.jid = NullJid THEN NullJid ELSE Trim(row.jid)
      all == SelectSeq(DateFileRows(f), LAMBDA row : rowJid(row) = wantJid)
  IN IF perJidPath \in DOMAIN f
     THEN AsMessages(LastLines(f[perJidPath], maxExchanges))
     ELSE AsMessages(LastLines(SortByTs(all), maxExchanges))

RECURSIVE TotalLines(_, _)
TotalLines(f, paths) ==
  IF paths = {} THEN 0
  ELSE LET p == CHOOSE q \in paths : TRUE
       IN Len(f[p]) + TotalLines(f, paths \ {p})

\* one exchange of a private chat (or one without a jid) is logged
AppendExchange(exchange) ==
  /\ TotalLines(chatLog, DOMAIN chatLog) < MaxLines
  /\ chatLog' = appendExchange(chatLog, exchange)
  /\ UNCHANGED <<vars, agentVars, libVars>>

\* one exchange of a group chat is logged
AppendGroupExchange(groupJid, exchange) ==
  /\ TotalLines(chatLog, DOMAIN chatLog) < MaxLines
  /\ chatLog' = appendGroupExchange(chatLog, groupJid, exchange)
  /\ UNCHANGED <<vars, agentVars, libVars>>

(* --------------------------------- Tide -------------------------------- *)
\* README.md:98, the default of tide.silenceCooldownMinutes
silenceCooldownMinutes == 30

\* a configured time "HH:mm" is <<HH, mm>>; a missing or empty one is <<>>
NoTime == <<>>

\* the quiet windows of the config: none, one that wraps midnight, one within a
\* day
TideWindows ==
  { [inactiveStart |-> NoTime, inactiveEnd |-> NoTime],
    [inactiveStart |-> <<23, 0>>, inactiveEnd |-> <<0, 30>>],
    [inactiveStart |-> <<22, 45>>, inactiveEnd |-> <<23, 30>>] }

\* the minute of the day the formatter of isInTideInactiveWindow reports for a
\* clock in minutes since a local midnight
currentMinsOf(clock) == ((clock \div 60) % 24) * 60 + (clock % 60)

\* parse of isInTideInactiveWindow
parse(hhmm) == hhmm[1] * 60 + hhmm[2]

\* the window test without the overnight branch
isInTideInactiveWindowSameDay(inactiveStart, inactiveEnd, currentMins) ==
  IF inactiveStart = NoTime \/ inactiveEnd = NoTime THEN FALSE
  ELSE currentMins >= parse(inactiveStart) /\ currentMins < parse(inactiveEnd)

\* isInTideInactiveWindow, with the current minute of the day as an argument
isInTideInactiveWindow(inactiveStart, inactiveEnd, currentMins) ==
  IF inactiveStart = NoTime \/ inactiveEnd = NoTime THEN FALSE
  ELSE LET startMins == parse(inactiveStart)
           endMins == parse(inactiveEnd)
       IN IF endMins > startMins
          THEN currentMins >= startMins /\ currentMins < endMins
          ELSE currentMins >= startMins \/ currentMins < endMins

NoWake == [woke |-> FALSE, inactive |-> FALSE, recent |-> FALSE, sent |-> FALSE]

\* the clock starts at 22:30 of the first day; nothing was sent yet
TideInit ==
  [clock |-> 22 * 60 + 30, inactiveStart |-> NoTime, inactiveEnd |-> NoTime,
   lastMessageMs |-> 0, lastTideSentMs |-> 0, last |-> NoWake]

\* recent activity that forgets Tide's own send
RecentActivityOfOthers(t) == t.lastMessageMs # 0 /\ t.clock - t.lastMessageMs < silenceCooldownMinutes

\* the last inbound or outbound message, Tide's own send included, is more
\* recent than silenceCooldownMinutes ago
RecentActivity(t) ==
  \/ t.lastMessageMs # 0 /\ t.clock - t.lastMessageMs < silenceCooldownMinutes
  \/ t.lastTideSentMs # 0 /\ t.clock - t.lastTideSentMs < silenceCooldownMinutes

\* time passes, half a cooldown at a time
TideTick ==
  /\ tide.clock < MaxClock
  /\ tide' = [tide EXCEPT !.clock = @ + silenceCooldownMinutes \div 2]
  /\ UNCHANGED <<vars, agentVars, chatLogVars, index, lastCall, toolVars>>

\* the user edits tide.inactiveStart / tide.inactiveEnd
EditTideWindow(window) ==
  /\ tide' = [tide EXCEPT !.inactiveStart = window.inactiveStart,
                          !.inactiveEnd = window.inactiveEnd]
  /\ UNCHANGED <<vars, agentVars, chatLogVars, index, lastCall, toolVars>>

\* a message comes in, or a reply goes out, in the chat
ChatMessage ==
  /\ tide' = [tide EXCEPT !.lastMessageMs = tide.clock]
  /\ UNCHANGED <<vars, agentVars, chatLogVars, index, lastCall, toolVars>>

\* one wake of Tide (one run of cron/run-tide.js): skip in the quiet window, skip
\* after recent activity, else run the agent and send its message
TideWake ==
  LET inactive == isInTideInactiveWindow(tide.inactiveStart, tide.inactiveEnd,
                                         currentMinsOf(tide.clock))
      recent == RecentActivity(tide)
      sent == ~inactive /\ ~recent
  IN /\ tide' = [tide EXCEPT
                   !.lastTideSentMs = IF sent THEN tide.clock ELSE @,
                   !.last = [woke |-> TRUE, inactive |-> inactive,
                             recent |-> recent, sent |-> sent]]
     /\ UNCHANGED <<vars, agentVars, chatLogVars, index, lastCall, toolVars>>

(* --------------------------- the memory index ------------------------- *)
\* the sources sync() walks: a note and a chat-log file
SourcePaths == {"MEMORY.md", "chat-log/2025-02-15.jsonl"}

\* a fingerprint (path, mtime, size) is the path and a number that changes with
\* every write of the file; 0 stands for a file that does not exist
IndexInit ==
  [sources |-> [path \in SourcePaths |-> 0],
   indexed |-> [path \in SourcePaths |-> 0],
   syncs |-> 0, upserted |-> 0, deleted |-> 0]

\* a sync that re-chunks every source it finds
FingerprintChangedAlways(ix, path) == TRUE

\* the fingerprint of the source differs from the one its chunks were indexed at
FingerprintChanged(ix, path) == ix.sources[path] # ix.indexed[path]

\* sync(): upsert the chunks of the sources whose fingerprint changed, delete the
\* chunks whose source disappeared; syncs counts the syncs since the last change
\* of a source
sync(ix) ==
  LET upserts == {path \in SourcePaths :
                    ix.sources[path] # 0 /\ FingerprintChanged(ix, path)}
      deletes == {path \in SourcePaths : ix.sources[path] = 0 /\ ix.indexed[path] # 0}
  IN [ix EXCEPT
        !.indexed = [path \in SourcePaths |->
                       IF path \in upserts \cup deletes THEN ix.sources[path] ELSE @[path]],
        !.syncs = IF @ < 2 THEN @ + 1 ELSE @,
        !.upserted = Cardinality(upserts),
        !.deleted = Cardinality(deletes)]

\* a source file is written (created, appended to, rewritten)
WriteSource(path) ==
  /\ index.sources[path] < MaxMtime
  /\ index' = [index EXCEPT !.sources[path] = @ + 1, !.syncs = 0]
  /\ UNCHANGED <<vars, agentVars, chatLogVars, tide, lastCall, toolVars>>

\* a source file is deleted
DeleteSource(path) ==
  /\ index.sources[path] # 0
  /\ index' = [index EXCEPT !.sources[path] = 0, !.syncs = 0]
  /\ UNCHANGED <<vars, agentVars, chatLogVars, tide, lastCall, toolVars>>

Sync ==
  /\ index' = sync(index)
  /\ UNCHANGED <<vars, agentVars, chatLogVars, tide, lastCall, toolVars>>

(* ---------------------------- memory config --------------------------- *)
\* JavaScript values: undefined (and null), NaN, a number
Undefined == [t |-> "undefined", v |-> 0]
NaN == [t |-> "NaN", v |-> 0]
Num(v) == [t |-> "number", v |-> v]

\* Number(x) of a number or of undefined
Number(x) == IF x.t = "number" THEN x ELSE NaN

\* a || b, for a number a
OrElse(a, b) == IF a.t # "number" \/ a.v = 0 THEN b ELSE a

\* a ?? b
Nullish(a, b) == IF a.t = "undefined" THEN b ELSE a

Min(a, b) == IF a < b THEN a ELSE b
Max(a, b) == IF a > b THEN a ELSE b

\* a string that is undefined or null is "undefined"; the names of the
\* environment variables the config refers to
NoString == "undefined"
EnvNames == {"OPENAI_API_KEY", "LLM_API_KEY"}

EMBEDDING_PRESETS ==
  [openai |-> "https://api.openai.com/v1", ollama |-> "http://127.0.0.1:11434/v1"]

DEFAULT_EMBEDDING_MODELS ==
  [openai |-> "text-embedding-3-small", ollama |-> "nomic-embed-text"]

\* fromEnv: the value of the environment variable val names, else val itself
fromEnv(env, val) ==
  IF val = NoString THEN NoString
  ELSE IF val \in EnvNames /\ env[val] # NoString THEN env[val]
  ELSE val

\* key && String(key).trim(): the key is set and not blank
NotBlank(key) == key \notin {NoString, "", " "}

\* the loop of getOpenAIKey over llm.models
RECURSIVE OpenAIModelKey(_, _)
OpenAIModelKey(env, models) ==
  IF models = <<>> THEN NoString
  ELSE LET m == Head(models)
           key == fromEnv(env, m.apiKey)
       IN IF m.provider = "openai" /\ NotBlank(key) /\ key # "not-needed"
          THEN key
          ELSE OpenAIModelKey(env, Tail(models))

\* getOpenAIKey: the key, or "undefined" for null
getOpenAIKey(env, raw) ==
  IF NotBlank(env["OPENAI_API_KEY"]) THEN env["OPENAI_API_KEY"]
  ELSE IF OpenAIModelKey(env, raw.models) # NoString
       THEN OpenAIModelKey(env, raw.models)
  ELSE LET key == fromEnv(env, "LLM_API_KEY")
       IN IF NotBlank(key) /\ key # "not-needed" THEN key ELSE NoString

\* getMemoryConfig of a config with "memory" enabled: embedding, chunking, search
getMemoryConfig(env, raw) ==
  LET known == raw.provider \in DOMAIN EMBEDDING_PRESETS
      openaiKey == getOpenAIKey(env, raw)
      chosen == IF known THEN raw.provider
                ELSE IF openaiKey # NoString THEN "openai" ELSE "ollama"
      llmKey == fromEnv(env, "LLM_API_KEY")
      model == IF fromEnv(env, raw.model) \notin {NoString, ""}
               THEN fromEnv(env, raw.model)
               ELSE DEFAULT_EMBEDDING_MODELS[chosen]
  IN [embedding |->
        [baseUrl |-> EMBEDDING_PRESETS[chosen],
         apiKey |-> IF known THEN (IF llmKey = NoString THEN "" ELSE llmKey)
                    ELSE IF openaiKey # NoString THEN openaiKey ELSE "not-needed",
         model |-> model],
      chunking |->
        [tokens |-> Max(100, Min(2000, OrElse(Number(raw.tokens), Num(512)).v)),
         overlap |-> Max(0, Min(100, OrElse(Number(raw.overlap), Num(32)).v))],
      search |->
        [maxResults |-> Max(1, Min(20, OrElse(Number(raw.maxResults), Num(6)).v)),
         minScore |-> OrElse(Number(raw.minScore), Num(0))]]

(* ----------------------------- memory_search --------------------------- *)
\* the hits of index.search(query), best first; a score is in hundredths
RECURSIVE Filter(_, _)
Filter(results, minScore) ==
  IF results = <<>> THEN <<>>
  ELSE LET rest == Filter(Tail(results), minScore)
       IN IF minScore.t = "number" /\ Head(results).score >= minScore.v
          THEN <<Head(results)>> \o rest
          ELSE rest

\* const minScore = Number(args?.minScore) ?? config.search.minScore
minScoreOf(args, config) == Nullish(Number(args.minScore), config.search.minScore)

\* memory_search of memorySkill.execute: the results it returns
memorySearch(args, config, results) ==
  LET maxResults ==
        Min(20, Max(1, OrElse(Number(args.maxResults), Num(config.search.maxResults)).v))
      filtered == Filter(results, minScoreOf(args, config))
  IN SubSeq(filtered, 1, Min(maxResults, Len(filtered)))

(* --------------------------------- edit -------------------------------- *)
\* text is a sequence of characters
Chars == {"a", "b"}

StartsWith(content, str) ==
  Len(str) <= Len(content) /\ SubSeq(content, 1, Len(str)) = str

\* content.includes(str)
RECURSIVE Includes(_, _)
Includes(content, str) ==
  \/ StartsWith(content, str)
  \/ content # <<>> /\ Includes(Tail(content), str)

\* content.split(separator), given the part before the position reached
RECURSIVE SplitFrom(_, _, _)
SplitFrom(part, content, separator) ==
  IF content = <<>> THEN <<part>>
  ELSE IF StartsWith(content, separator)
       THEN <<part>> \o SplitFrom(<<>>, SubSeq(content, Len(separator) + 1, Len(content)),
                                  separator)
       ELSE SplitFrom(Append(part, Head(content)), Tail(content), separator)

\* content.split(separator): an empty separator splits into the characters
Split(content, separator) ==
  IF separator = <<>> THEN [i \in 1..Len(content) |-> <<content[i]>>]
  ELSE SplitFrom(<<>>, content, separator)

\* parts.join(glue)
RECURSIVE Join(_, _)
Join(parts, glue) ==
  IF parts = <<>> THEN <<>>
  ELSE IF Len(parts) = 1 THEN parts[1]
  ELSE parts[1] \o glue \o Join(Tail(parts), glue)

\* executeEdit without the check that oldString occurs
executeEditUnchecked(content, oldStr, newString) ==
  LET parts == Split(content, oldStr)
  IN [replaced |-> TRUE, count |-> Len(parts) - 1, content |-> Join(parts, newString)]

\* executeEdit on an existing file: the result and the content of the file after
executeEdit(content, oldStr, newString) ==
  IF ~Includes(content, oldStr)
  THEN [replaced |-> FALSE, count |-> 0, content |-> content]
  ELSE LET parts == Split(content, oldStr)
       IN [replaced |-> TRUE, count |-> Len(parts) - 1,
           content |-> Join(parts, newString)]

\* a file of the workspace: missing, or present with its content
NoFile == [exists |-> FALSE, content |-> <<>>]
File(content) == [exists |-> TRUE, content |-> content]

\* executeEdit from the existsSync check on: the error of the result ("" = none),
\* whether writeFileSync ran, and the file after the call
editFile(file, oldStr, newString) ==
  IF ~file.exists
  THEN [error |-> "File not found", replaced |-> FALSE, count |-> 0,
        exists |-> FALSE, content |-> <<>>]
  ELSE LET r == executeEdit(file.content, oldStr, newString)
       IN [error |-> IF r.replaced THEN ""
                     ELSE "No exact match for oldString in file. Edit not applied.",
           replaced |-> r.replaced, count |-> r.count,
           exists |-> TRUE, content |-> r.content]

(* ------------------------------ apply-patch ---------------------------- *)
\* a hunk and a file content are sequences of lines (split on newlines), a line
\* is a sequence of characters

\* parseHunk: " " is context, "-" is removed, "+" is added, the rest is ignored
RECURSIVE parseHunk(_)
parseHunk(lines) ==
  IF lines = <<>> THEN [oldLines |-> <<>>, newLines |-> <<>>]
  ELSE LET line == Head(lines)
           rest == parseHunk(Tail(lines))
       IN IF StartsWith(line, <<" ">>)
          THEN [oldLines |-> <<Tail(line)>> \o rest.oldLines,
                newLines |-> <<Tail(line)>> \o rest.newLines]
          ELSE IF StartsWith(line, <<"-">>)
          THEN [oldLines |-> <<Tail(line)>> \o rest.oldLines, newLines |-> rest.newLines]
          ELSE IF StartsWith(line, <<"+">>)
          THEN [oldLines |-> rest.oldLines, newLines |-> <<Tail(line)>> \o rest.newLines]
          ELSE rest

\* the loop of findHunkStart from index i (0-based) on, comparing the first line only
RECURSIVE findFirstLineFrom(_, _, _)
findFirstLineFrom(i, fileLines, oldLines) ==
  IF i > Len(fileLines) - Len(oldLines) THEN -1
  ELSE IF fileLines[i + 1] = oldLines[1] THEN i
  ELSE findFirstLineFrom(i + 1, fileLines, oldLines)

\* the loop of findHunkStart from index i (0-based) on
RECURSIVE findHunkStartFrom(_, _, _)
findHunkStartFrom(i, fileLines, oldLines) ==
  IF i > Len(fileLines) - Len(oldLines) THEN -1
  ELSE IF fileLines[i + 1] # oldLines[1]
       THEN findHunkStartFrom(i + 1, fileLines, oldLines)
  ELSE IF \A j \in 1..(Len(oldLines) - 1) : fileLines[i + j + 1] = oldLines[j + 1]
       THEN i
  ELSE findHunkStartFrom(i + 1, fileLines, oldLines)

findHunkStartFirstLine(fileLines, oldLines) ==
  IF Len(oldLines) = 0 THEN 0 ELSE findFirstLineFrom(0, fileLines, oldLines)

\* findHunkStart: the 0-based index of the first match, -1 if there is none
findHunkStart(fileLines, oldLines) ==
  IF Len(oldLines) = 0 THEN 0 ELSE findHunkStartFrom(0, fileLines, oldLines)

\* !hunk.trim(): the hunk holds nothing but whitespace
IsBlank(hunk) == \A k \in 1..Len(hunk) : \A n \in 1..Len(hunk[k]) : hunk[k][n] = " "

\* executeApplyPatch from the hunk check on: the error of the result ("" =
\* none), startLine, and the file after the call
executeApplyPatch(file, hunk) ==
  LET failed(error) == [error |-> error, applied |-> FALSE, startLine |-> 0,
                        exists |-> file.exists, content |-> file.content]
  IN IF IsBlank(hunk) THEN failed("hunk is required.")
     ELSE IF ~file.exists THEN failed("File not found")
     ELSE LET parsed == parseHunk(hunk)
              fileLines == file.content
              start == findHunkStart(fileLines, parsed.oldLines)
          IN IF start < 0
             THEN failed("Hunk context does not match file. Patch not applied.")
             ELSE [error |-> "", applied |-> TRUE, startLine |-> start + 1,
                   exists |-> TRUE,
                   content |-> SubSeq(fileLines, 1, start) \o parsed.newLines
                                 \o SubSeq(fileLines, start + Len(parsed.oldLines) + 1,
                                           Len(fileLines))]

(* ---------------------------- home-assistant --------------------------- *)
\* a string is a sequence of tokens: words, "_" and the blank " "; a missing
\* argument and the empty string are both <<>> (each is read with "|| ''")

\* String(x).trim()
RECURSIVE trimStart(_)
trimStart(str) ==
  IF str # <<>> /\ Head(str) = " " THEN trimStart(Tail(str)) ELSE str

RECURSIVE trim(_)
trim(str) ==
  IF str # <<>> /\ str[Len(str)] = " " THEN trim(SubSeq(str, 1, Len(str) - 1))
  ELSE trimStart(str)

\* str.split(/\s+/).filter(Boolean)
splitWords(str) == SelectSeq(Split(str, <<" ">>), LAMBDA part : part # <<>>)

\* action.toLowerCase().replace(/\s+/g, '_'), of a trimmed lower-case action
snakeCase(action) == Join(splitWords(action), <<"_">>)

\* buildCliArgs: the argv handed to ha-cli.js
buildCliArgs(args) ==
  LET cmd == IF trim(args.command) # <<>> THEN trim(args.command) ELSE trim(args.action)
      parts == splitWords(trim(cmd))
      act == snakeCase(trim(args.action))
      domain == trim(args.domain)
      entityId == trim(args.entity_id)
      service == trim(args.service)
      serviceDataStr == args.service_data
  IN IF cmd # <<>> /\ Len(parts) > 0 THEN parts
     ELSE IF act \in {<<"list", "_", "states">>, <<"list">>} THEN << <<"list">>, domain >>
     ELSE IF act = <<"get", "_", "state">>
          THEN (IF entityId # <<>> THEN << <<"state">>, entityId >> ELSE <<>>)
     ELSE IF /\ act \in {<<"call", "_", "service">>, <<"call">>, <<"service">>}
             /\ domain # <<>> /\ service # <<>>
          THEN << <<"call">>, domain, service >>
                 \o (IF entityId # <<>> THEN <<entityId>>
                     ELSE IF serviceDataStr # <<>> THEN << <<>> >> ELSE <<>>)
                 \o (IF serviceDataStr # <<>> THEN <<serviceDataStr>> ELSE <<>>)
     ELSE <<>>

(* -------------------------------- browse ------------------------------- *)
\* The browsers launched are numbered in launch order; browsers[b] is "open" or
\* "closed"; sessionByKey[key] is the browser of the session of that chat, 0 if
\* there is none.  A call of executeBrowse with a page action goes through
\* runWithSessionRetry; its awaits are the points where another call can run.
BrowseKeys == {"default", NumericJid}
BrowseCalls == 1..MaxCalls

NoBrowseCall ==
  [pc |-> "idle", key |-> "default", attempt |-> 0, browser |-> 0, runs |-> <<>>,
   error |-> ""]

BrowseInit ==
  [sessionByKey |-> [key \in BrowseKeys |-> 0], browsers |-> <<>>,
   calls |-> [c \in BrowseCalls |-> NoBrowseCall]]

\* closeSession(key): no session, nothing; else the entry is deleted and the
\* context and the browser are closed
closeSession(b, key) ==
  IF b.sessionByKey[key] = 0 THEN b
  ELSE [b EXCEPT !.sessionByKey[key] = 0,
                 !.browsers[b.sessionByKey[key]] = "closed"]

\* isPageClosedOrTimeout(err), on the kinds of failure of a page action
isPageClosedOrTimeout(outcome) == outcome = "closed"

\* the catch of runWithSessionRetry retrying whenever the page was closed
RetriesEvery(attempt, outcome) == isPageClosedOrTimeout(outcome)

\* the catch of runWithSessionRetry: only the first run is inside the try
Retries(attempt, outcome) == attempt = 1 /\ isPageClosedOrTimeout(outcome)

\* executeBrowse with a page action and a url: runWithSessionRetry is entered
ExecuteBrowse(c, key) ==
  /\ browse.calls[c].pc = "idle"
  /\ browse' = [browse EXCEPT !.calls[c] =
                  [NoBrowseCall EXCEPT !.pc = "session", !.key = key, !.attempt = 1]]
  /\ UNCHANGED <<vars, agentVars, chatLogVars, tide, index, lastCall, removed>>

\* getOrCreateSession up to the launch: a session of the chat is closed when it
\* is stale or when navigating its page throws, reused when its page is open
\* and navigates, and left alone when its page is found closed
GetOrCreateSession(c, found) ==
  LET call == browse.calls[c]
      session == browse.sessionByKey[call.key]
  IN /\ call.pc = "session"
     /\ session = 0 => found = "none"
     /\ session # 0 => found \in {"stale", "open", "gotoThrows", "pageClosed"}
     /\ browse' =
          IF found = "open"
          THEN [browse EXCEPT !.calls[c].pc = "action", !.calls[c].browser = session]
          ELSE IF found \in {"stale", "gotoThrows"}
          THEN [closeSession(browse, call.key) EXCEPT !.calls[c].pc = "launch"]
          ELSE [browse EXCEPT !.calls[c].pc = "launch"]
     /\ UNCHANGED <<vars, agentVars, chatLogVars, tide, index, lastCall, removed>>

\* chromium.launch, newContext, newPage
Launch(c) ==
  /\ browse.calls[c].pc = "launch"
  /\ Len(browse.browsers) < MaxBrowsers
  /\ browse' = [browse EXCEPT !.browsers = Append(@, "open"),
                              !.calls[c].browser = Len(browse.browsers) + 1,
                              !.calls[c].pc = "goto"]
  /\ UNCHANGED <<vars, agentVars, chatLogVars, tide, index, lastCall, removed>>

\* page.goto(url) on the new page: when it resolves the session is registered,
\* when it throws the error leaves getOrCreateSession and runWithSessionRetry
Goto(c, ok) ==
  LET call == browse.calls[c]
  IN /\ call.pc = "goto"
     /\ browse' =
          IF ok
          THEN [browse EXCEPT !.sessionByKey[call.key] = call.browser,
                              !.calls[c].pc = "action"]
          ELSE [browse EXCEPT !.calls[c].pc = "raised", !.calls[c].error = "session"]
     /\ UNCHANGED <<vars, agentVars, chatLogVars, tide, index, lastCall, removed>>

\* fn(page, session): it returns, or throws a page-closed or timeout error, or
\* throws another error
RunAction(c, outcome) ==
  LET call == browse.calls[c]
      ran == [outcome |-> outcome, browser |-> call.browser]
  IN /\ call.pc = "action"
     /\ browse' =
          IF outcome = "ok"
          THEN [browse EXCEPT !.calls[c].pc = "returned", !.calls[c].runs = Append(@, ran)]
          ELSE IF Retries(call.attempt, outcome)
          THEN [closeSession(browse, call.key) EXCEPT
                  !.calls[c].pc = "session", !.calls[c].attempt = @ + 1,
                  !.calls[c].runs = Append(@, ran)]
          ELSE [browse EXCEPT !.calls[c].pc = "raised", !.calls[c].error = "action",
                              !.calls[c].runs = Append(@, ran)]
     /\ UNCHANGED <<vars, agentVars, chatLogVars, tide, index, lastCall, removed>>

\* executeBrowse with action "reset", and resetBrowseSession
ResetBrowseSession(key) ==
  /\ browse.sessionByKey[key] # 0
  /\ browse' = closeSession(browse, key)
  /\ UNCHANGED <<vars, agentVars, chatLogVars, tide, index, lastCall, removed>>

(* --------------------------- the library calls ------------------------- *)
NoCall == [fn |-> "none"]

\* a call is made when the last one has returned
GetMemoryConfig(env, raw) ==
  /\ lastCall = NoCall
  /\ lastCall' = [fn |-> "getMemoryConfig", env |-> env, raw |-> raw,
                  config |-> getMemoryConfig(env, raw)]
  /\ UNCHANGED <<vars, agentVars, chatLogVars, tide, index, toolVars>>

MemorySearch(env, raw, args, results) ==
  /\ lastCall = NoCall
  /\ lastCall' = [fn |-> "memory_search", config |-> getMemoryConfig(env, raw),
                  args |-> args, hits |-> results,
                  results |-> memorySearch(args, getMemoryConfig(env, raw), results)]
  /\ UNCHANGED <<vars, agentVars, chatLogVars, tide, index, toolVars>>

ExecuteEdit(file, oldStr, newString) ==
  /\ lastCall = NoCall
  /\ lastCall' = [fn |-> "edit", existed |-> file.exists, before |-> file.content,
                  oldString |-> oldStr, newString |-> newString,
                  result |-> editFile(file, oldStr, newString)]
  /\ UNCHANGED <<vars, agentVars, chatLogVars, tide, index, toolVars>>

ExecuteApplyPatch(file, hunk) ==
  /\ lastCall = NoCall
  /\ lastCall' = [fn |-> "apply-patch", existed |-> file.exists, before |-> file.content,
                  hunk |-> hunk, result |-> executeApplyPatch(file, hunk)]
  /\ UNCHANGED <<vars, agentVars, chatLogVars, tide, index, toolVars>>

\* executeHomeAssistant up to runCli: an empty argv is answered with an error
BuildCliArgs(args) ==
  /\ lastCall = NoCall
  /\ lastCall' = [fn |-> "buildCliArgs", args |-> args, argv |-> buildCliArgs(args),
                  ran |-> Len(buildCliArgs(args)) # 0]
  /\ UNCHANGED <<vars, agentVars, chatLogVars, tide, index, toolVars>>

\* the caller has used the result
Return ==
  /\ lastCall # NoCall
  /\ lastCall' = NoCall
  /\ UNCHANGED <<vars, agentVars, chatLogVars, tide, index, toolVars>>

(* --------------------------- the specification ------------------------- *)
Init ==
  /\ now = 1
  /\ store = <<>>
  /\ nextId = 1
  /\ currentSock = "none"
  /\ currentTelegramBot = "none"
  /\ currentSelfJid = NoJid
  /\ currentStorePath = "none"
  /\ scheduled = EmptyBag
  /\ oneShotTimeouts = EmptyBag
  /\ runs = EmptyBag
  /\ outbox = [j \in JobIds |-> <<>>]
  /\ done = [j \in JobIds |-> "none"]
  /\ ticks = 0
  /\ crashes = 0
  /\ files = NoFiles
  /\ turn = IdleTurn
  /\ chatLog = NoLines
  /\ tide = TideInit
  /\ index = IndexInit
  /\ lastCall = NoCall
  /\ browse = BrowseInit
  /\ removed = {}

\* the schedules the model asks the skill to add; a time past MaxTime is a
\* reminder that does not come due within the horizon, at = 0 is a schedule
\* whose "at" is missing or not a string
Schedules ==
  [kind : {"at"}, at : 0..(MaxTime + 1), expr : {""}]
    \cup [kind : {"cron"}, at : {0}, expr : {EveryFiveMinutes}]

\* the calls of startCron: WhatsApp connected (with or without a bot), Telegram
\* only, the agent's Telegram sock, and ctx.startCron (runner.js:73)
StartCronCalls ==
  { [sock |-> "wa", selfJid |-> WhatsAppJid, storePath |-> "path", telegramBot |-> "undefined"],
    [sock |-> "wa", selfJid |-> WhatsAppJid, storePath |-> "path", telegramBot |-> "bot"],
    [sock |-> "none", selfJid |-> NoJid, storePath |-> "path", telegramBot |-> "bot"],
    [sock |-> "telegram", selfJid |-> NoJid, storePath |-> "path", telegramBot |-> "bot"],
    [sock |-> currentSock, selfJid |-> currentSelfJid, storePath |-> currentStorePath,
     telegramBot |-> currentTelegramBot] }

Outcomes == {"agentError", "emptyText", "sendOk", "sendFail"}

Next ==
  \/ \E c \in StartCronCalls : StartCron(c.sock, c.selfJid, c.storePath, c.telegramBot)
  \/ StopCron
  \/ \E t \in BagToSet(oneShotTimeouts) : OneShotFires(t)
  \/ \E c \in BagToSet(scheduled) : CronFires(c)
  \/ \E r \in BagToSet(runs), outcome \in Outcomes : RunJobOnce(r, outcome)
  \/ \E r \in BagToSet(runs), delivered \in BOOLEAN : SendApology(r, delivered)
  \/ \E r \in BagToSet(runs) : AfterRunJob(r)
  \/ Tick
  \/ Crash
  \/ CronList
  \/ \E schedule \in Schedules, jid \in Jids \cup {NoJid} : CronAdd(schedule, jid)
  \/ \E jobId \in JobIds : CronRemove(jobId)

Spec == Init /\ [][Next]_allVars

MainContents == {Absent, Json(<<"cron">>), Json(<<"cron", "core", "read">>)}

TurnJids == {WhatsAppJid, GroupJid}

AgentNext ==
  \/ \E origin \in {"live", "cron"}, jid \in TurnJids : StartTurn(origin, jid)
  \/ \E text \in Texts : ModelReturnsText(text)
  \/ \E calls \in ToolCallResponses : ModelReturnsToolCalls(calls)
  \/ \E dispatcher \in Dispatchers, outcome \in ExecutorOutcomes :
       DispatchToolCall(dispatcher, outcome)
  \/ \E content \in MainContents : EditConfig(ConfigPath, content)

AgentSpec == Init /\ [][AgentNext]_allVars

\* the model answers every call and every dispatched executor returns
ModelAnswers ==
  \/ \E text \in Texts : ModelReturnsText(text)
  \/ \E calls \in ToolCallResponses : ModelReturnsToolCalls(calls)

ExecutorReturns ==
  \E dispatcher \in Dispatchers, outcome \in ExecutorOutcomes :
    DispatchToolCall(dispatcher, outcome)

AgentFairSpec ==
  AgentSpec /\ WF_allVars(ModelAnswers) /\ WF_allVars(ExecutorReturns)

GroupContents ==
  {Absent, Invalid, NoSkills, Json(<<"search">>), Json(<<"core", "read", "search">>)}

ConfigNext ==
  \/ \E path \in FilePaths \ {MarkerPath}, content \in GroupContents :
       EditConfig(path, content)
  \/ \E groupId \in GroupIds : EnsureGroupConfigFor(groupId)

ConfigSpec == Init /\ [][ConfigNext]_allVars

\* the chats and texts of the model: a plain jid, two jids that differ in a
\* character the file name replaces, a blank jid, no jid; a text, a text to trim,
\* an empty and a blank text
ChatJids == {<<"7">>, <<"7", "@">>, <<"7", "_">>, <<" ">>, NullJid}
GroupJids == {<<"-", "7">>, <<".", ".">>, <<" ">>}
UserTexts == {<<"h">>, <<" ", "h">>, <<>>}
AssistantTexts == {<<"h">>, <<" ">>}

Exchanges ==
  [user : UserTexts, assistant : AssistantTexts, timestampMs : 1..MaxTs, jid : ChatJids]

GroupExchanges == {ex \in Exchanges : ex.jid = NullJid}

ChatLogNext ==
  \/ \E exchange \in Exchanges : AppendExchange(exchange)
  \/ \E groupJid \in GroupJids, exchange \in GroupExchanges :
       AppendGroupExchange(groupJid, exchange)

ChatLogSpec == Init /\ [][ChatLogNext]_allVars

TideNext ==
  \/ TideTick
  \/ \E window \in TideWindows : EditTideWindow(window)
  \/ ChatMessage
  \/ TideWake

TideSpec == Init /\ [][TideNext]_allVars

IndexNext ==
  \/ \E path \in SourcePaths : WriteSource(path)
  \/ \E path \in SourcePaths : DeleteSource(path)
  \/ Sync

IndexSpec == Init /\ [][IndexNext]_allVars

\* the environments and configs of the model: each key unset, blank, a
\* placeholder or set; no model, an OpenAI model with a key, with a reference to
\* an environment variable, another provider; values inside, on the edge of and
\* outside the bands
Envs ==
  [OPENAI_API_KEY : {NoString, " ", "sk-openai"},
   LLM_API_KEY : {NoString, "", "not-needed", "sk-llm"}]

RawConfigs ==
  [provider : {NoString, "ollama", "acme"},
   model : {NoString, "custom-embed"},
   models : {<<>>, <<[provider |-> "openai", apiKey |-> "sk-model"]>>,
             <<[provider |-> "anthropic", apiKey |-> "sk-ant"],
               [provider |-> "openai", apiKey |-> "LLM_API_KEY"]>>},
   tokens : {Undefined, Num(0), Num(99), Num(100), Num(2000), Num(2001)},
   overlap : {Undefined, Num(0), Num(50), Num(100), Num(101)},
   maxResults : {Undefined},
   minScore : {Undefined, Num(50)}]

SearchConfigs ==
  {raw \in RawConfigs : /\ raw.provider = NoString /\ raw.model = NoString
                        /\ raw.models = <<>> /\ raw.tokens = Undefined
                        /\ raw.overlap = Undefined}

SearchArgs == [minScore : {Undefined, Num(0), Num(50)}, maxResults : {Undefined, Num(1)}]

Hits ==
  {<<>>, <<[path |-> "MEMORY.md", score |-> 80]>>,
   <<[path |-> "MEMORY.md", score |-> 80], [path |-> "memory/notes.md", score |-> 30]>>}

RECURSIVE TextsUpTo(_)
TextsUpTo(n) ==
  IF n = 0 THEN {<<>>}
  ELSE TextsUpTo(n - 1) \cup {Append(text, c) : text \in TextsUpTo(n - 1), c \in Chars}

\* the files an edit is asked to change
Files == {NoFile} \cup {File(content) : content \in TextsUpTo(MaxContent)}

\* the lines of the files to patch and of the hunks: context, removed and
\* added lines, a header, an empty line and an empty context line
FileLines == {<<"a">>, <<"b">>, <<>>}
HunkLines == {<<" ", "a">>, <<"-", "a">>, <<"-", "b">>, <<"+", "a">>, <<"+", "b">>,
              <<"@", "@">>, <<>>, <<" ">>}

RECURSIVE SeqsUpTo(_, _)
SeqsUpTo(S, n) ==
  IF n = 0 THEN {<<>>}
  ELSE SeqsUpTo(S, n - 1) \cup {Append(seq, x) : seq \in SeqsUpTo(S, n - 1), x \in S}

\* a split never yields an empty list
PatchFiles == {NoFile} \cup {File(lines) : lines \in SeqsUpTo(FileLines, MaxFileLines) \ {<<>>}}
Hunks == SeqsUpTo(HunkLines, MaxHunkLines) \ {<<>>}

\* the arguments of the home-assistant skill: a command, or the legacy shape;
\* service_data is the JSON text of a non-empty object, or nothing
HaArgs ==
  [command : {<<>>, <<"list", " ", "light">>},
   action : {<<>>, <<"list">>, <<"list", "_", "states">>, <<"list", " ", "states">>,
             <<"get", "_", "state">>, <<"call", "_", "service">>},
   domain : {<<>>, <<"light">>},
   entity_id : {<<>>, <<"light.kitchen">>},
   service : {<<>>, <<"turn", "_", "on">>},
   service_data : {<<>>, <<"{brightness:255}">>}]

\* a call is made when the last one has returned: until then there is no input
WhenReturned(inputs) == IF lastCall = NoCall THEN inputs ELSE {}

LibNext ==
  \/ \E env \in WhenReturned(Envs), raw \in RawConfigs : GetMemoryConfig(env, raw)
  \/ \E env \in WhenReturned(Envs), raw \in SearchConfigs, args \in SearchArgs,
        results \in Hits :
       MemorySearch(env, raw, args, results)
  \/ \E file \in WhenReturned(Files), oldStr \in TextsUpTo(2),
        newString \in {<<>>, <<"b">>, <<"a", "a">>} :
       ExecuteEdit(file, oldStr, newString)
  \/ \E file \in WhenReturned(PatchFiles), hunk \in Hunks : ExecuteApplyPatch(file, hunk)
  \/ \E args \in WhenReturned(HaArgs) : BuildCliArgs(args)
  \/ Return

LibSpec == Init /\ [][LibNext]_allVars

\* the runner with reminders up to weeks ahead: the delays of the one-shots
\* added are a minute, the largest delay a timer takes, and a minute more
FarDelays == {1, TIMEOUT_MAX_MINUTES, TIMEOUT_MAX_MINUTES + 1}

TimerNext ==
  \/ StartCron("wa", WhatsAppJid, "path", "undefined")
  \/ StopCron
  \/ \E delay \in FarDelays :
       CronAdd([kind |-> "at", at |-> now + delay, expr |-> ""], NumericJid)
  \/ CronAdd([kind |-> "cron", at |-> 0, expr |-> EveryFiveMinutes], NumericJid)
  \/ \E id \in JobIds : ScheduleOneShot(id)
  \/ \E t \in BagToSet(oneShotTimeouts) : OneShotFires(t)
  \/ \E r \in BagToSet(runs), outcome \in {"emptyText", "sendOk"} : RunJobOnce(r, outcome)
  \/ \E r \in BagToSet(runs) : AfterRunJob(r)
  \/ Tick
  \/ \E minutes \in FarDelays \ {1} : TimePasses(minutes)

TimerSpec == Init /\ [][TimerNext]_allVars

BrowseNext ==
  \/ \E c \in BrowseCalls, key \in BrowseKeys : ExecuteBrowse(c, key)
  \/ \E c \in BrowseCalls, found \in {"none", "stale", "open", "gotoThrows", "pageClosed"} :
       GetOrCreateSession(c, found)
  \/ \E c \in BrowseCalls : Launch(c)
  \/ \E c \in BrowseCalls, ok \in BOOLEAN : Goto(c, ok)
  \/ \E c \in BrowseCalls, outcome \in {"ok", "closed", "other"} : RunAction(c, outcome)
  \/ \E key \in BrowseKeys : ResetBrowseSession(key)

BrowseSpec == Init /\ [][BrowseNext]_allVars


(* ------------------------------ the claims ----------------------------- *)
StartCronStep ==
  \E c \in StartCronCalls : StartCron(c.sock, c.selfJid, c.storePath, c.telegramBot)

OneShotMessages(j) == SelectSeq(outbox[j], LAMBDA m : m.origin # "cron")
RunsOf(j) == {r \in BagToSet(runs) : r.id = j}
TimersOf(j, timeouts) == {t \in BagToSet(timeouts) : t.id = j}

\* C1: across any startCron calls, timer firings, crashes and restarts, the
\* transports deliver at most one message (reply or apology) for a one-shot job.
C1_AtMostOnce == \A j \in JobIds : Len(OneShotMessages(j)) <= 1

\* a message went out, the process crashed before removeJob, and the runner was
\* started again with a transport wired and the job overdue: it is not sent again
C1_Witness ==
  \E j \in DOMAIN store :
    /\ Len(OneShotMessages(j)) = 1
    /\ crashes = 1
    /\ RunsOf(j) = {}
    /\ currentSock = "wa" /\ currentStorePath = "path"
    /\ store[j].at <= now

\* C2: on both one-shot paths the stored sentAtMs is set before the first attempt
\* begins: a one-shot run in flight, and a one-shot with a delivered message, has
\* its stored sentAtMs set as long as the job is in the store.
C2_MarkBeforeRun ==
  /\ \A r \in BagToSet(runs) :
       (r.origin # "cron" /\ r.id \in DOMAIN store) => store[r.id].sentAtMs # 0
  /\ \A j \in DOMAIN store :
       OneShotMessages(j) # <<>> => store[j].sentAtMs # 0

\* a timer-started run and an overdue run, both before their first attempt, both marked
C2_Witness ==
  \E r1, r2 \in BagToSet(runs) :
    /\ r1.origin = "timeout" /\ r1.tries = 0 /\ r1.pc = "try"
    /\ r2.origin = "overdue" /\ r2.tries = 0 /\ r2.pc = "try"
    /\ r1.id \in DOMAIN store /\ r2.id \in DOMAIN store
    /\ store[r1.id].sentAtMs # 0 /\ store[r2.id].sentAtMs # 0

\* C3 as stated: removed when the run succeeds; when all retry attempts fail the job
\* stays in the store with sentAtMs set.
C3_Original ==
  \A j \in JobIds :
    /\ done[j] = "ok" => j \notin DOMAIN store
    /\ done[j] = "failed" => (j \in DOMAIN store /\ store[j].sentAtMs # 0)

\* C3 amended: a one-shot job is removed from the store once its run has returned,
\* when an attempt succeeded and also when all retry attempts failed.
C3_RemovedAfterRun ==
  \A j \in JobIds : done[j] \in {"ok", "failed"} => j \notin DOMAIN store

C3_Witness == \E j \in JobIds : done[j] = "failed" /\ j \notin DOMAIN store

\* C4: startCron skips every one-shot whose sentAtMs is already set: no timer for
\* it afterwards, no run started for it, its store entry unchanged.
C4_SentSkipped ==
  [][StartCronStep =>
       \A j \in DOMAIN store :
         (store[j].kind = "at" /\ store[j].sentAtMs # 0) =>
           /\ j \in DOMAIN store' /\ store'[j] = store[j]
           /\ TimersOf(j, oneShotTimeouts') = {}
           /\ \A r \in BagToSet(runs') :
                r.id = j => CopiesIn(r, runs') = CopiesIn(r, runs)]_vars

\* after a crash the runner was started again: it ran an overdue job and left the
\* job that was already marked alone
C4_Witness ==
  \E j, k \in DOMAIN store :
    /\ j # k /\ crashes = 1 /\ currentStorePath = "path"
    /\ store[j].kind = "at" /\ store[j].sentAtMs # 0 /\ RunsOf(j) = {}
    /\ TimersOf(j, oneShotTimeouts) = {}
    /\ \E r \in RunsOf(k) : r.origin = "overdue" /\ r.tries = 0

C6_RetryPolicy ==
  \A r \in BagToSet(runs) :
    LET failures == r.tries - (IF r.ok THEN 1 ELSE 0)
    IN /\ r.tries <= 3
       /\ r.ok => r.pc = "returned"
       /\ r.slept = SubSeq(<<5000, 15000>>, 1, IF failures < 2 THEN failures ELSE 2)
       /\ r.apologies <= 1
       /\ r.pc # "returned" => r.apologies = 0
       /\ r.pc = "returned" => (r.apologies = 1 <=> (~r.ok /\ r.tries = 3))
       /\ r.pc = "apology" => (~r.ok /\ r.tries = 3)

C6_Witness ==
  \E r \in BagToSet(runs) :
    /\ r.pc = "returned" /\ ~r.ok /\ r.tries = 3 /\ r.apologies = 1
    /\ r.slept = <<5000, 15000>>

\* C7: a tick of a recurring job, and the end of its run whether it succeeded or
\* failed after all retries, leaves the store unchanged: the job is neither removed
\* nor marked.
C7_RecurringKept ==
  [][(\/ \E c \in BagToSet(scheduled) : CronFires(c)
      \/ \E r \in BagToSet(runs) : r.origin = "cron" /\ AfterRunJob(r))
       => store' = store]_vars

\* a recurring job whose run failed three times and apologised is still stored, unmarked
C7_Witness ==
  \E j \in DOMAIN store :
    /\ store[j].kind = "cron" /\ store[j].sentAtMs = 0
    /\ ticks >= 1 /\ RunsOf(j) = {}
    /\ Len(outbox[j]) = 1 /\ outbox[j][1].kind = "apology"

\* C8 as stated: a numeric chat id goes out only on the bot-API transport, any
\* other jid only on the linked-device socket.
C8_Routing ==
  \A j \in JobIds : \A k \in 1..Len(outbox[j]) :
    LET m == outbox[j][k]
    IN IF isTelegramChatId(m.jid) THEN m.via = "telegram" ELSE m.via = "sock"

\* C9 as stated: with a store path and only a Telegram bot wired, scheduleOneShot of
\* a future, unsent one-shot installs exactly one pending timer for it.
C9_TelegramOnlyTimer ==
  [][\A schedule \in Schedules, jid \in Jids \cup {NoJid} :
       (/\ CronAdd(schedule, jid)
        /\ currentStorePath = "path" /\ currentTelegramBot = "bot" /\ currentSock = "none"
        /\ schedule.kind = "at" /\ schedule.at > now)
       => Cardinality(TimersOf(nextId, oneShotTimeouts')) = 1]_vars

\* C10: a successful add adds exactly one job to the store, a list adds none.
C10_AddOne ==
  [][/\ (\E schedule \in Schedules, jid \in Jids \cup {NoJid} : CronAdd(schedule, jid))
          => Cardinality(DOMAIN store') = Cardinality(DOMAIN store) + 1
     /\ CronList => store' = store]_vars

\* exactly one add was accepted and the store holds exactly that job
C10_Witness == nextId = 2 /\ DOMAIN store = {1}

\* C11 as stated: after any sequence of adds the stored one-shots have pairwise
\* distinct at values.
C11_Original ==
  \A i, j \in DOMAIN store :
    (i # j /\ store[i].kind = "at" /\ store[j].kind = "at") => store[i].at # store[j].at

\* C11 amended: an accepted add stores one new job carrying the time it was asked
\* for and leaves the stored jobs as they are, whether or not a stored one-shot
\* already has that time; the new job's at equals a stored one's exactly when the
\* add asked for that same time.
C11_AddKeepsAt ==
  [][\A schedule \in Schedules, jid \in Jids \cup {NoJid} :
       CronAdd(schedule, jid) =>
         /\ DOMAIN store' = DOMAIN store \cup {nextId}
         /\ nextId \notin DOMAIN store
         /\ store'[nextId].kind = schedule.kind
         /\ store'[nextId].at = schedule.at
         /\ \A i \in DOMAIN store : store'[i] = store[i]]_vars

\* two adds asked for different times: two one-shots with distinct at values
C11_Witness ==
  \E i, j \in DOMAIN store :
    /\ i # j /\ store[i].kind = "at" /\ store[j].kind = "at"
    /\ store[i].at # store[j].at

\* C12: a turn makes at most maxIterations model calls and always ends; a turn
\* ended by the cap returns a non-empty reply.
C12_Terminates ==
  /\ [](/\ turn.modelCalls <= maxIterations
        /\ turn.pc = "model" => turn.modelCalls < maxIterations
        /\ turn.capped => (turn.pc = "done" /\ turn.reply # ""))
  /\ (turn.pc \in {"model", "dispatch"}) ~> (turn.pc = "done")

\* the model asked for tools at every call: the cap ended the turn
C12_Witness ==
  /\ turn.pc = "done" /\ turn.capped
  /\ turn.modelCalls = maxIterations /\ turn.reply = CapText

\* C13: the tool calls of a response are dispatched in the order returned, each
\* yields one tool message carrying its tool_call_id, in that order, and all of
\* them are appended before the model is called again.
C13_InOrder ==
  /\ Len(turn.toolMessages) <= Len(turn.calls)
  /\ \A k \in 1..Len(turn.toolMessages) :
       /\ turn.toolMessages[k].tool_call_id = turn.calls[k].id
       /\ turn.toolMessages[k].name = turn.calls[k].skill
  /\ (turn.pc = "model" \/ turn.capped) => Len(turn.toolMessages) = Len(turn.calls)

\* two calls whose ids are not in numeric order were both answered, in response order
C13_Witness ==
  /\ turn.pc = "model" /\ Len(turn.calls) = 2 /\ Len(turn.toolMessages) = 2
  /\ turn.calls[1].id = "call_2" /\ turn.toolMessages[1].tool_call_id = "call_2"
  /\ turn.toolMessages[2].tool_call_id = "call_1"

\* C14 as stated: executeSkill always returns a string; when the executor throws
\* it is {"error": message}; for a skill id that names no skill it is the
\* 'Unknown skill' error and nothing runs.
C14_NeverPropagates ==
  turn.last.skillId # "none" =>
    /\ turn.last.result.type = "string"
    /\ turn.last.threw => turn.last.result.error = ExecutorThrew
    /\ ~turn.last.known =>
         (turn.last.result.error = "Unknown skill" /\ turn.last.ran = "none")

\* C15 as stated: in a turn whose chat is a group, live or started by the cron
\* runner, a call to the core skill never runs the core executor, and the
\* dispatcher of skills/executor.js answers it with the group-chat error.
C15_CoreDeniedInGroups ==
  (isWhatsAppGroupJid(turn.jid) /\ turn.last.skillId = CORE_SKILL_ID) =>
    /\ turn.last.ran = "none"
    /\ turn.last.via = "executor" => turn.last.result.error = GroupChatError

\* C16 as stated: whatever the arguments, every program executeCore causes to run
\* is one of the ten allow-listed commands (the sh that carries out cd counted
\* as cd).
C16_OnlyAllowed == (turn.last.spawned \ {"sh"}) \subseteq ALLOWED

\* C17 as stated: whatever the main and group config files hold, the enabled list
\* of a group contains neither core nor read.
C17_GroupNeverCoreRead ==
  \A g \in GroupIds :
    Range(getGroupSkillsEnabled(g, files)) \cap {"core", "read"} = {}

\* C18 as stated: the dispatcher runs an executor only for a skill listed in
\* skills.enabled, and getEnabledTools exposes only skills enabled and loaded.
C18_OnlyEnabledRun ==
  /\ turn.last.ran \in EXECUTORS => turn.last.enabled
  /\ Range(getEnabledTools(files)) \subseteq (Range(getSkillsConfig(files)) \cap SKILLS_CACHE)

\* C19 as stated: after appendExchange with a jid that is not blank, reading the
\* last n exchanges of that jid, n >= 1, ends with the record's user text (role
\* user) and then its assistant text (role assistant), surrounding blanks aside.
C19_Original ==
  [][\A exchange \in Exchanges :
       (AppendExchange(exchange) /\ exchange.jid # NullJid /\ Trim(exchange.jid) # <<>>) =>
         \A n \in 1..MaxExchanges :
           LET out == readLastPrivateExchanges(chatLog', exchange.jid, n)
           IN /\ Len(out) >= 2
              /\ out[Len(out) - 1] = [role |-> "user", content |-> Trim(exchange.user)]
              /\ out[Len(out)] =
                   [role |-> "assistant", content |-> Trim(exchange.assistant)]]_allVars

\* C19 amended: ... ends with the record's user text and then its assistant text,
\* each trimmed, and each replaced by "(no text)" when it is empty after trimming.
C19_RoundTrip ==
  [][\A exchange \in Exchanges :
       (AppendExchange(exchange) /\ exchange.jid # NullJid /\ Trim(exchange.jid) # <<>>) =>
         \A n \in 1..MaxExchanges :
           LET out == readLastPrivateExchanges(chatLog', exchange.jid, n)
               text(t) == IF Trim(t) = <<>> THEN NoText ELSE Trim(t)
           IN /\ Len(out) >= 2
              /\ Len(out) <= 2 * n
              /\ out[Len(out) - 1] = [role |-> "user", content |-> text(exchange.user)]
              /\ out[Len(out)] =
                   [role |-> "assistant", content |-> text(exchange.assistant)]]_allVars

\* a chat's file holds two exchanges, the later one with an empty user text and a
\* blank assistant text
C19_Witness ==
  \E p \in DOMAIN chatLog :
    /\ p.root = CHAT_LOG_DIR /\ p.dir = PRIVATE_CHAT_DIR /\ Len(chatLog[p]) = 2
    /\ chatLog[p][2].user = <<>> /\ chatLog[p][2].assistant = <<>>
    /\ chatLog[p][1].user = <<"h">>

\* C20: appendGroupExchange writes one file under group-chat-log/<group id>/ and
\* leaves every file under chat-log/ as it was; what readLastPrivateExchanges
\* returns, for every jid and n, is the same before and after.
C20_GroupIsolated ==
  [][\A groupJid \in GroupJids, exchange \in GroupExchanges :
       AppendGroupExchange(groupJid, exchange) =>
         /\ \A p \in DOMAIN chatLog : p \in DOMAIN chatLog'
         /\ \A p \in DOMAIN chatLog' :
              \/ p \in DOMAIN chatLog /\ chatLog'[p] = chatLog[p]
              \/ p.root = "group-chat-log" /\ p.dir = safeGroupId(groupJid)
         /\ \A p \in DOMAIN chatLog' : p.root = "chat-log" => p \in DOMAIN chatLog
         /\ \A jid \in ChatJids, n \in 1..MaxExchanges :
              readLastPrivateExchanges(chatLog', jid, n)
                = readLastPrivateExchanges(chatLog, jid, n)]_allVars

\* a private exchange and a group exchange are both logged, in different trees
C20_Witness ==
  /\ \E p \in DOMAIN chatLog : p.root = "chat-log" /\ p.dir = <<>>
  /\ \E p \in DOMAIN chatLog : p.root = "group-chat-log" /\ p.dir = <<"_", "_">>

\* C23: two agent turns for the same chat never run at the same time.  A run of
\* runJob that has not returned and has made no attempt yet is inside its first
\* runAgentTurn for the chat r.jid.
C23_OneTurnPerChat ==
  \A r \in BagToSet(runs) :
    (r.pc = "try" /\ r.tries = 0) =>
      /\ CopiesIn(r, runs) = 1
      /\ \A q \in BagToSet(runs) :
           (q.pc = "try" /\ q.tries = 0 /\ q.jid = r.jid) => q = r

C30_OneShotsHaveAt ==
  \A i \in DOMAIN store : store[i].kind = "at" => store[i].at # 0

\* the closed window of the original statement: start <= t <= end, or, when
\* end < start, t >= start or t <= end
InClosedWindow(t) ==
  /\ t.inactiveStart # NoTime /\ t.inactiveEnd # NoTime
  /\ LET m == currentMinsOf(t.clock)
          s == parse(t.inactiveStart)
          e == parse(t.inactiveEnd)
     IN IF e < s THEN m >= s \/ m <= e ELSE m >= s /\ m <= e

\* the window that excludes its end: start <= t < end, or, when end <= start,
\* t >= start or t < end
InHalfOpenWindow(t) ==
  /\ t.inactiveStart # NoTime /\ t.inactiveEnd # NoTime
  /\ LET m == currentMinsOf(t.clock)
          s == parse(t.inactiveStart)
          e == parse(t.inactiveEnd)
     IN IF e > s THEN m >= s /\ m < e ELSE m >= s \/ m < e

\* C21 as stated: a wake at a local time t with start <= t <= end (or, across
\* midnight, t >= start or t <= end) reports inactive and sends no message.
C21_Original ==
  [][(TideWake /\ InClosedWindow(tide)) =>
       (tide'.last.inactive /\ ~tide'.last.sent /\ tide'.lastTideSentMs = tide.lastTideSentMs)]_allVars

\* C21: a wake at a local time t with start <= t < end (or, when end <= start,
\* t >= start or t < end) reports inactive and sends no message, however long
\* the chat has been silent; outside that window the check reports active.
C21_QuietWindow ==
  [][TideWake =>
       /\ tide'.last.inactive = InHalfOpenWindow(tide)
       /\ InHalfOpenWindow(tide) =>
            (~tide'.last.sent /\ tide'.lastTideSentMs = tide.lastTideSentMs)]_allVars

\* a wake inside the quiet window after a silence of at least a cooldown: only
\* the window kept Tide from sending
C21_Witness ==
  /\ tide.last.woke /\ tide.last.inactive /\ ~tide.last.recent /\ ~tide.last.sent
  /\ InHalfOpenWindow(tide)
  /\ tide.lastMessageMs # 0
  /\ tide.clock - tide.lastMessageMs >= silenceCooldownMinutes

\* C22: Tide sends only when at least silenceCooldownMinutes have passed since
\* its own last send and since the last inbound or outbound message.
C22_NoDoubleText ==
  [][(TideWake /\ tide'.last.sent) =>
       /\ tide.lastTideSentMs # 0 =>
            tide.clock - tide.lastTideSentMs >= silenceCooldownMinutes
       /\ tide.lastMessageMs # 0 =>
            tide.clock - tide.lastMessageMs >= silenceCooldownMinutes]_allVars

\* Tide woke less than a cooldown after its own send, the chat silent since
\* before that send, and sent nothing
C22_Witness ==
  /\ tide.last.woke /\ ~tide.last.inactive /\ tide.last.recent /\ ~tide.last.sent
  /\ tide.lastTideSentMs # 0
  /\ tide.clock - tide.lastTideSentMs < silenceCooldownMinutes
  /\ tide.lastMessageMs < tide.lastTideSentMs

\* C24: a sync() that follows a sync() with no write or delete of a source in
\* between upserts zero chunks and leaves the index as it was.
C24_SyncIdempotent ==
  [][(Sync /\ index.syncs >= 1) =>
       (index'.upserted = 0 /\ index'.deleted = 0 /\ index'.indexed = index.indexed)]_allVars

\* two syncs in a row over an index that holds both sources, the second of them
\* with nothing to upsert
C24_Witness ==
  /\ index.syncs = 2
  /\ index.upserted = 0
  /\ \A path \in SourcePaths : index.sources[path] # 0 /\ index.indexed[path] = index.sources[path]

\* the clamp of the statement: a configured value is clamped to [lo, hi], the
\* default applies when the value is not configured
ClampOrDefault(x, lo, hi, default) ==
  IF x.t = "number" THEN Max(lo, Min(hi, x.v)) ELSE default

\* C25: getMemoryConfig resolves chunking.tokens to the configured value clamped
\* to [100, 2000] and chunking.overlap to the configured value clamped to
\* [0, 100]; 512 and 32 apply only when the value is not configured.
C25_ChunkingClamp ==
  lastCall.fn = "getMemoryConfig" =>
    /\ lastCall.config.chunking.tokens = ClampOrDefault(lastCall.raw.tokens, 100, 2000, 512)
    /\ lastCall.config.chunking.overlap = ClampOrDefault(lastCall.raw.overlap, 0, 100, 32)

\* an OpenAI key is available: OPENAI_API_KEY, an openai entry of llm.models
\* with a key, or the LLM_API_KEY environment variable
OpenAIKeyAvailable(env, raw) ==
  \/ NotBlank(env["OPENAI_API_KEY"])
  \/ OpenAIModelKey(env, raw.models) # NoString
  \/ NotBlank(env["LLM_API_KEY"]) /\ env["LLM_API_KEY"] # "not-needed"

\* C26: when memory.embedding names no known provider, OpenAI is selected if and
\* only if an OpenAI key is available; with none available the local Ollama
\* endpoint is selected, with apiKey 'not-needed' and, unless memory.embedding
\* sets a model, nomic-embed-text.
C26_EmbeddingFallback ==
  (lastCall.fn = "getMemoryConfig" /\ lastCall.raw.provider \notin DOMAIN EMBEDDING_PRESETS) =>
    LET available == OpenAIKeyAvailable(lastCall.env, lastCall.raw)
        embedding == lastCall.config.embedding
    IN /\ (embedding.baseUrl = EMBEDDING_PRESETS["openai"]) <=> available
       /\ ~available =>
            /\ embedding.baseUrl = EMBEDDING_PRESETS["ollama"]
            /\ embedding.apiKey = "not-needed"
            /\ lastCall.raw.model = NoString => embedding.model = "nomic-embed-text"

\* the hits with a score of at least min, in order
RECURSIVE HitsAtLeast(_, _)
HitsAtLeast(hits, min) ==
  IF hits = <<>> THEN <<>>
  ELSE IF Head(hits).score >= min THEN <<Head(hits)>> \o HitsAtLeast(Tail(hits), min)
  ELSE HitsAtLeast(Tail(hits), min)

\* C27: memory_search without a minScore argument returns the hits whose score
\* is at least the configured minimum score, up to maxResults of them.
C27_DefaultMinScore ==
  (lastCall.fn = "memory_search" /\ lastCall.args.minScore = Undefined) =>
    LET expected == HitsAtLeast(lastCall.hits, lastCall.config.search.minScore.v)
        maxResults == IF lastCall.args.maxResults = Undefined
                      THEN lastCall.config.search.maxResults
                      ELSE lastCall.args.maxResults.v
    IN lastCall.results = SubSeq(expected, 1, Min(maxResults, Len(expected)))

\* content with every occurrence of oldStr, found from left to right, replaced
\* by newString; the empty string occurs before every character and at the end
RECURSIVE ReplaceAll(_, _, _)
ReplaceAll(content, oldStr, newString) ==
  IF content = <<>> THEN (IF oldStr = <<>> THEN newString ELSE <<>>)
  ELSE IF oldStr = <<>>
       THEN newString \o <<Head(content)>> \o ReplaceAll(Tail(content), oldStr, newString)
  ELSE IF StartsWith(content, oldStr)
       THEN newString \o ReplaceAll(SubSeq(content, Len(oldStr) + 1, Len(content)),
                                    oldStr, newString)
  ELSE <<Head(content)>> \o ReplaceAll(Tail(content), oldStr, newString)

\* the number of those occurrences
RECURSIVE Occurrences(_, _)
Occurrences(content, oldStr) ==
  IF content = <<>> THEN (IF oldStr = <<>> THEN 1 ELSE 0)
  ELSE IF oldStr = <<>> THEN 1 + Occurrences(Tail(content), oldStr)
  ELSE IF StartsWith(content, oldStr)
       THEN 1 + Occurrences(SubSeq(content, Len(oldStr) + 1, Len(content)), oldStr)
  ELSE Occurrences(Tail(content), oldStr)

\* C28: a successful edit leaves the file equal to the original content with
\* every occurrence of oldString replaced by newString, and reports the number
\* of occurrences replaced.
C28_EditReplacesAll ==
  (lastCall.fn = "edit" /\ lastCall.result.replaced) =>
    /\ lastCall.result.content =
         ReplaceAll(lastCall.before, lastCall.oldString, lastCall.newString)
    /\ lastCall.result.count = Occurrences(lastCall.before, lastCall.oldString)

\* C31: when the file does not exist or oldString does not occur in it, the
\* edit returns an error and the file is as it was; the file is written only
\* when oldString occurs at least once.
C31_EditFailsUnchanged ==
  lastCall.fn = "edit" =>
    /\ (~lastCall.existed \/ Occurrences(lastCall.before, lastCall.oldString) = 0) =>
         /\ lastCall.result.error # ""
         /\ ~lastCall.result.replaced
         /\ lastCall.result.exists = lastCall.existed
         /\ lastCall.result.content = lastCall.before
    /\ lastCall.result.replaced =>
         lastCall.existed /\ Occurrences(lastCall.before, lastCall.oldString) > 0

C31_Witness ==
  /\ lastCall.fn = "edit"
  /\ lastCall.existed
  /\ lastCall.before = <<"a", "b", "a">>
  /\ lastCall.oldString = <<"b", "b">>
  /\ lastCall.result.error # ""
  /\ lastCall.result.content = lastCall.before

\* the old lines of a hunk are its context and "-" lines, the new lines its
\* context and "+" lines, each without the prefix
Stripped(lines) == [k \in 1..Len(lines) |-> Tail(lines[k])]
OldLinesOf(hunk) == Stripped(SelectSeq(hunk, LAMBDA line : line # <<>> /\ line[1] \in {" ", "-"}))
NewLinesOf(hunk) == Stripped(SelectSeq(hunk, LAMBDA line : line # <<>> /\ line[1] \in {" ", "+"}))

\* the 0-based indexes at which the old lines match consecutive file lines
MatchIndexes(fileLines, oldLines) ==
  {i \in 0..(Len(fileLines) - Len(oldLines)) :
     SubSeq(fileLines, i + 1, i + Len(oldLines)) = oldLines}

\* C32: the file after apply-patch is the lines before the first index at which
\* all the old lines of the hunk match, then the new lines of the hunk, then
\* the lines after the matched block; when the old lines match nowhere the
\* result is an error and the file is unchanged.
C32_PatchAtFirstMatch ==
  (lastCall.fn = "apply-patch" /\ lastCall.existed) =>
    LET fileLines == lastCall.before
        oldLines == OldLinesOf(lastCall.hunk)
        found == MatchIndexes(fileLines, oldLines)
        first == CHOOSE i \in found : \A k \in found : i <= k
    IN IF found = {}
       THEN /\ lastCall.result.error # ""
            /\ lastCall.result.content = fileLines
       ELSE /\ lastCall.result.content =
                 SubSeq(fileLines, 1, first) \o NewLinesOf(lastCall.hunk)
                   \o SubSeq(fileLines, first + Len(oldLines) + 1, Len(fileLines))
            /\ lastCall.result.applied => lastCall.result.startLine = first + 1

C32_Witness ==
  /\ lastCall.fn = "apply-patch"
  /\ lastCall.before = << <<"a">>, <<"a">>, <<"b">> >>
  /\ lastCall.hunk = << <<" ", "a">>, <<"-", "b">>, <<"+", "a">> >>
  /\ lastCall.result.applied
  /\ lastCall.result.startLine = 2
  /\ lastCall.result.content = << <<"a">>, <<"a">>, <<"a">> >>

\* C33: without a command, the legacy arguments are translated: action
\* list_states or list with a domain to list and the domain, get_state with an
\* entity to state and the entity, call_service with domain, service and entity
\* to call, domain, service, entity.
C33_LegacyArgs ==
  (lastCall.fn = "buildCliArgs" /\ lastCall.args.command = <<>>) =>
    LET args == lastCall.args
    IN /\ args.action \in {<<"list", "_", "states">>, <<"list">>} =>
            lastCall.argv = << <<"list">>, args.domain >>
       /\ (args.action = <<"get", "_", "state">> /\ args.entity_id # <<>>) =>
            lastCall.argv = << <<"state">>, args.entity_id >>
       /\ (/\ args.action = <<"call", "_", "service">>
           /\ args.domain # <<>> /\ args.service # <<>> /\ args.entity_id # <<>>
           /\ args.service_data = <<>>) =>
            lastCall.argv = << <<"call">>, args.domain, args.service, args.entity_id >>

Finished(call) == call.pc \in {"returned", "raised"}

\* what the statement says of every run but the retry itself: at most two runs
\* of the action, a second run only after a page-closed or timeout error of the
\* first, and an error of another kind or of the second run ends the call
AtMostOneRetry(call) ==
  /\ Len(call.runs) <= 2
  /\ Len(call.runs) = 2 =>
       /\ isPageClosedOrTimeout(call.runs[1].outcome)
       /\ call.runs[2].browser # call.runs[1].browser
       /\ Finished(call)
       /\ call.runs[2].outcome # "ok" => call.pc = "raised" /\ call.error = "action"
  /\ (Len(call.runs) >= 1 /\ call.runs[1].outcome = "other") =>
       call.pc = "raised" /\ call.error = "action" /\ Len(call.runs) = 1

C34_Original ==
  \A c \in BrowseCalls :
    LET call == browse.calls[c]
    IN /\ AtMostOneRetry(call)
       /\ (/\ Finished(call) /\ Len(call.runs) >= 1
           /\ isPageClosedOrTimeout(call.runs[1].outcome)) => Len(call.runs) = 2

\* C34: runWithSessionRetry runs the action at most twice; after a page-closed
\* or timeout error of the first run the session of the chat is closed and the
\* action is run once more on another session, unless creating that session
\* throws, which ends the call with that error and without a second run; any
\* other error, and any error of the second run, ends the call.
C34_RetryOnce ==
  \A c \in BrowseCalls :
    LET call == browse.calls[c]
    IN /\ AtMostOneRetry(call)
       /\ (/\ Finished(call) /\ Len(call.runs) >= 1
           /\ isPageClosedOrTimeout(call.runs[1].outcome)) =>
            \/ Len(call.runs) = 2
            \/ call.pc = "raised" /\ call.error = "session" /\ call.attempt = 2

C34_Witness ==
  \E c \in BrowseCalls :
    LET call == browse.calls[c]
    IN /\ call.pc = "raised"
       /\ Len(call.runs) = 2
       /\ call.runs[1].outcome = "closed"
       /\ call.runs[2].outcome = "closed"

\* the browsers a call has launched and is still navigating
BeingSetUp == {browse.calls[c].browser : c \in {k \in BrowseCalls : browse.calls[k].pc = "goto"}}

\* C39: every browser launched is closed or is the session of some chat in
\* sessionByKey (a browser whose first navigation is still pending aside).
C39_NoLeakedBrowser ==
  \A b \in 1..Len(browse.browsers) :
    \/ browse.browsers[b] = "closed"
    \/ \E key \in BrowseKeys : browse.sessionByKey[key] = b
    \/ b \in BeingSetUp

\* a run of job id begins in this step: a runJob invocation that has made no
\* attempt yet is added
RunBegins(id) ==
  \E r \in BagToSet(runs') :
    r.id = id /\ r.tries = 0 /\ r.attempt = 0 /\ CopiesIn(r, runs') > CopiesIn(r, runs)

\* C35: once the cron skill has removed a job, no run of that job begins: a
\* timer or schedule installed for it earlier does not fire a run.
C35_RemovedNeverRuns == [][\A id \in removed : ~RunBegins(id)]_allVars

\* C37: while the runner is started with a transport wired, an enabled
\* recurring job that enters the store has a live schedule from then on, so
\* that it fires on its next tick without another startCron.
C37_AddedRecurringIsScheduled ==
  [][\A id \in JobIds :
       (/\ RunnerReady(currentSock, currentStorePath)
        /\ id \notin DOMAIN store
        /\ id \in DOMAIN store'
        /\ store'[id].enabled
        /\ store'[id].kind = "cron"
        /\ store'[id].sentAtMs = 0)
         => \E c \in BagToSet(scheduled') : c.id = id]_allVars

\* C36: the run of a one-shot job that its timer starts begins at or after the
\* job's schedule.at, however far ahead that time was when the timer was set.
C36_NeverBeforeAt ==
  [][\A t \in BagToSet(oneShotTimeouts) :
       (CopiesIn(t, oneShotTimeouts') < CopiesIn(t, oneShotTimeouts) /\ RunBegins(t.id))
         => t.at <= now]_allVars

\* every job id has at most one pending timer or live schedule
OneTimerPerJob ==
  \A id \in JobIds :
    LET timers == {t \in BagToSet(oneShotTimeouts) : t.id = id}
        schedules == {c \in BagToSet(scheduled) : c.id = id}
    IN /\ Cardinality(timers) + Cardinality(schedules) <= 1
       /\ \A t \in timers : CopiesIn(t, oneShotTimeouts) = 1
       /\ \A c \in schedules : CopiesIn(c, scheduled) = 1

C38_Original == OneTimerPerJob

\* C38: startCron replaces the timers and schedules installed earlier: after
\* every startCron call each job id has at most one pending timer or live
\* schedule, whatever was pending before, and after stopCron there is none.
C38_StartCronReplaces ==
  [][/\ StartCronStep => OneTimerPerJob'
     /\ StopCron => (oneShotTimeouts' = EmptyBag /\ scheduled' = EmptyBag)]_allVars

C38_Witness ==
  /\ RunnerReady(currentSock, currentStorePath)
  /\ \E t \in BagToSet(oneShotTimeouts) : \E c \in BagToSet(scheduled) : t.id # c.id
  /\ OneTimerPerJob
====
